---- MODULE Spec2Model ----
(***************************************************************************)
(* Tag-rule evaluation and application engine of the personal-finance      *)
(* backend: rule validation and persistence, the predicate evaluator, the  *)
(* ownership guard, the tag association writer and the two apply entry     *)
(* points (single transaction, bulk/filtered), in dry-run and committing   *)
(* mode, sequentially and as concurrent requests.                          *)
(***************************************************************************)
EXTENDS Integers, Sequences, FiniteSets, TLC

\* Bounds of the model: number of tag ids and of rule ids ever allocated.
MaxTags == 2
MaxRules == 2

-----------------------------------------------------------------------------
(* Optional values (Python None | value) and strings (sequences of chars).  *)

None == <<>>
Some(v) == <<v>>
IsNone(o) == o = <<>>
Val(o) == o[1]

\* str.lower() / str.upper() on the characters the model uses.
LowerChar(c) ==
    CASE c = "A" -> "a"
      [] c = "B" -> "b"
      [] c = "U" -> "u"
      [] c = "E" -> "e"
      [] OTHER -> c

UpperChar(c) ==
    CASE c = "a" -> "A"
      [] c = "b" -> "B"
      [] c = "u" -> "U"
      [] c = "e" -> "E"
      [] OTHER -> c

str_lower(s) == [i \in 1..Len(s) |-> LowerChar(s[i])]
str_upper(s) == [i \in 1..Len(s) |-> UpperChar(s[i])]

\* Python's `sub in s` on strings.
str_in(sub, s) ==
    \E i \in 0..(Len(s) - Len(sub)) : \A j \in 1..Len(sub) : s[i + j] = sub[j]

\* Python truthiness of an optional string: None and "" are falsy.
Truthy(o) == ~IsNone(o) /\ Val(o) # <<>>

\* re.compile(p): the patterns of the model are literals, "." and "[";
\* a "[" is never closed (there is no "]"), so it makes the pattern invalid.
re_compile_ok(p) == \A i \in 1..Len(p) : p[i] # "["

\* compiled.search(s) with re.IGNORECASE, for a pattern that compiles.
re_search(p, s) ==
    \E i \in 0..(Len(s) - Len(p)) :
        \A j \in 1..Len(p) : p[j] = "." \/ LowerChar(p[j]) = LowerChar(s[i + j])

-----------------------------------------------------------------------------
(* The ownership chain Transaction -> CardStatement -> CreditCard -> User   *)
(* and the transactions, which the engine only reads.                       *)

Users == {"u1", "u2"}
TagIds == 1..MaxTags
RuleIds == 1..MaxRules
Labels == {"Shopping", "Food"}

\* CreditCard rows: id |-> user_id.
credit_cards == [c \in {"c1", "c2"} |-> IF c = "c1" THEN "u1" ELSE "u2"]

\* CardStatement rows: id |-> card_id.
card_statements == [s \in {"s1", "s2", "s3"} |-> IF s = "s3" THEN "c2" ELSE "c1"]

TxnIds == {"t1", "t2", "t3"}

\* Transaction rows.  t1 and t2 belong to u1 (through s1, s2 and c1), t3 to u2
\* (through s3 and c2).
TxnTable ==
    [t \in TxnIds |->
        CASE t = "t1" -> [id |-> "t1", statement_id |-> "s1", txn_date |-> 1,
                          payee |-> <<"A", "b">>, description |-> <<"a">>,
                          amount |-> Some(50), currency |-> <<"U">>]
          [] t = "t2" -> [id |-> "t2", statement_id |-> "s2", txn_date |-> 2,
                          payee |-> <<"a">>, description |-> <<"b", "a">>,
                          amount |-> Some(60), currency |-> <<"u">>]
          [] t = "t3" -> [id |-> "t3", statement_id |-> "s3", txn_date |-> 2,
                          payee |-> <<"b">>, description |-> <<"a">>,
                          amount |-> None, currency |-> <<"E">>]]

\* The order in which a query returns transactions (primary-key order).
TxnOrder == <<"t1", "t2", "t3">>

\* The user at the end of a transaction's ownership chain.
TxnOwner(t) == credit_cards[card_statements[TxnTable[t].statement_id]]

-----------------------------------------------------------------------------
(* State.                                                                   *)

VARIABLES
    tags,          \* tags table: sequence of optional rows, tag_id = index
    rules,         \* tag_rules table: sequence of optional rows, id = index
    assocs,        \* transaction_tags table: (transaction id, tag id) |-> rows
    transactions,  \* transactions table: id |-> row
    last,          \* the last completed request and its response
    procs          \* the apply requests in flight, one per worker

vars == <<tags, rules, assocs, transactions, last, procs>>

Workers == {"w1", "w2"}

Pairs == TxnIds \X TagIds

RECURSIVE SumOver(_, _)
SumOver(f, S) ==
    IF S = {} THEN 0
    ELSE LET x == CHOOSE y \in S : TRUE IN f[x] + SumOver(f, S \ {x})

\* Number of rows of the association table.
AssocCount(a) == SumOver(a, Pairs)

-----------------------------------------------------------------------------
(* Repositories.                                                            *)

\* TagRepository.get_by_id: the row, or None where the code raises
\* TagNotFoundError.
tag_get_by_id(tg, tag_id) ==
    IF tag_id \in 1..Len(tg) THEN tg[tag_id] ELSE None

\* TagRepository.get_by_user_and_label: is there such a tag.
tag_get_by_user_and_label(tg, user_id, label) ==
    \E i \in 1..Len(tg) :
        ~IsNone(tg[i]) /\ Val(tg[i]).user_id = user_id /\ Val(tg[i]).label = label

\* TransactionTagRepository.get_by_ids: TRUE when the pair is stored, FALSE
\* where the code raises TransactionTagNotFoundError.
transaction_tag_get_by_ids(a, transaction_id, tag_id) ==
    a[<<transaction_id, tag_id>>] > 0

\* Faulty variant of the association table: no uniqueness constraint.
transaction_tag_create_unconstrained(a, transaction_id, tag_id) ==
    [ok |-> TRUE,
     assocs |-> [a EXCEPT ![<<transaction_id, tag_id>>] = @ + 1]]

\* TransactionTagRepository.create under the table's pair uniqueness: the
\* insert of a stored pair is refused (IntegrityError), any other is committed.
transaction_tag_create(a, transaction_id, tag_id) ==
    IF a[<<transaction_id, tag_id>>] > 0
    THEN [ok |-> FALSE, assocs |-> a]
    ELSE [ok |-> TRUE,
          assocs |-> [a EXCEPT ![<<transaction_id, tag_id>>] = @ + 1]]

\* TagRuleRepository.get_by_id: the row, or None where the code raises
\* TagRuleNotFoundError.
rule_get_by_id(rs, rule_id) ==
    IF rule_id \in 1..Len(rs) THEN rs[rule_id] ELSE None

\* The ids of the stored rules.
StoredRuleIds(rs) == {i \in 1..Len(rs) : ~IsNone(rs[i])}

\* Faulty variant of the ordering: by creation time alone.
RuleBeforeByCreation(x, y) == x.created_at < y.created_at

\* ORDER BY priority ASC, created_at ASC: does row x come before row y.
RuleBefore(x, y) ==
    \/ x.priority < y.priority
    \/ x.priority = y.priority /\ x.created_at < y.created_at

\* The rows with ids in S, in that order.
RECURSIVE OrderRules(_, _)
OrderRules(rs, S) ==
    IF S = {} THEN <<>>
    ELSE LET m == CHOOSE i \in S :
                    \A j \in S : i = j \/ RuleBefore(Val(rs[i]), Val(rs[j]))
         IN <<Val(rs[m])>> \o OrderRules(rs, S \ {m})

\* Faulty variant of the listing: the enabled filter is not applied.
list_applicable_with_disabled(rs, user_id, enabled_only) ==
    OrderRules(rs, {i \in StoredRuleIds(rs) : Val(rs[i]).user_id = user_id})

\* TagRuleRepository.list_applicable_for_user.
list_applicable_for_user(rs, user_id, enabled_only) ==
    OrderRules(rs, {i \in StoredRuleIds(rs) :
                       /\ Val(rs[i]).user_id = user_id
                       /\ (enabled_only => Val(rs[i]).enabled)})

\* Default page size of TagRuleRepository.list.
ListLimit == 100

Min(a, b) == IF a < b THEN a ELSE b

\* TagRuleRepository.list with filters = {"tag_id": tag_id}: the ids of the
\* matching rows in table order, from row skip + 1 on, at most limit of them.
repository_list(rs, skip, limit, tag_id) ==
    LET all == SelectSeq([i \in 1..Len(rs) |-> i],
                         LAMBDA i : ~IsNone(rs[i]) /\ Val(rs[i]).tag_id = tag_id)
    IN SubSeq(all, skip + 1, Min(skip + limit, Len(all)))

\* TagRuleRepository.delete of each listed rule.
repository_delete_all(rs, ids) ==
    [i \in 1..Len(rs) |->
        IF \E k \in 1..Len(ids) : ids[k] = i THEN None ELSE rs[i]]

\* TagRepository.delete: TagNotFoundError for an unknown tag; where rules
\* still reference the tag, the delete is refused when the database enforces
\* the foreign key of tag_rules.tag_id and goes through when it does not.
tag_delete(tg, rs, tag_id, enforced) ==
    IF IsNone(tag_get_by_id(tg, tag_id))
    THEN [error |-> "TagNotFoundError", tags |-> tg]
    ELSE IF enforced /\ \E i \in StoredRuleIds(rs) : Val(rs[i]).tag_id = tag_id
    THEN [error |-> "IntegrityError", tags |-> tg]
    ELSE [error |-> "ok", tags |-> [tg EXCEPT ![tag_id] = None]]

\* TagRepository.update with a label: TagNotFoundError for an unknown tag,
\* else the label is written to the row.
tag_update(tg, tag_id, label) ==
    IF IsNone(tag_get_by_id(tg, tag_id))
    THEN [error |-> "TagNotFoundError", tags |-> tg]
    ELSE [error |-> "ok",
          tags |-> [tg EXCEPT ![tag_id] = Some([Val(@) EXCEPT !.label = label])]]

\* TagService.update_tag.
update_tag(tg, tag_id, label) == tag_update(tg, tag_id, label)

\* TagService.delete_tag: the rules listed for the tag are deleted one by
\* one, then the tag.
delete_tag(tg, rs, tag_id, enforced) ==
    LET listed == repository_list(rs, 0, ListLimit, tag_id)
        left == repository_delete_all(rs, listed)
        t == tag_delete(tg, left, tag_id, enforced)
    IN [error |-> t.error, tags |-> t.tags, rules |-> left]

-----------------------------------------------------------------------------
(* Rule validation (the request models).                                    *)

ConditionFields ==
    {"payee_contains", "description_contains", "payee_regex",
     "description_regex", "amount_min", "amount_max", "currency"}

\* validate_regex: TRUE when the field passes.
validate_regex(v) == IsNone(v) \/ re_compile_ok(Val(v))

\* Faulty variant of the model validator: data with no condition passes.
validate_any_conditions(d) == TRUE

\* TagRuleCreate.validate_at_least_one_condition: TRUE when the model passes.
validate_at_least_one_condition(d) ==
    ~(\A f \in ConditionFields : IsNone(d[f]))

\* Construction of a TagRuleCreate: TRUE when no validator raises.
TagRuleCreate(d) ==
    /\ validate_regex(d.payee_regex)
    /\ validate_regex(d.description_regex)
    /\ validate_at_least_one_condition(d)

\* Construction of a TagRuleUpdate: TRUE when no validator raises.  `d.set`
\* holds the fields passed to the constructor (model_fields_set).
TagRuleUpdate(d) ==
    /\ ("payee_regex" \in d.set => validate_regex(d.payee_regex))
    /\ ("description_regex" \in d.set => validate_regex(d.description_regex))

-----------------------------------------------------------------------------
(* Ownership guard and predicate evaluator.                                 *)

\* Faulty variant of the ownership walk: every transaction passes.
belongs_to_any_user(transaction, user_id) == TRUE

\* TagRuleService._transaction_belongs_to_user: a card of the user exists
\* whose statements include the transaction's statement.
_transaction_belongs_to_user(transaction, user_id) ==
    \E c \in DOMAIN credit_cards : \E s \in DOMAIN card_statements :
        /\ card_statements[s] = c
        /\ s = transaction.statement_id
        /\ credit_cards[c] = user_id

\* The per-field checks of TagRuleService._evaluate_rule; each is TRUE when
\* the field lets the transaction through.  (The _cased and _strict ones are
\* faulty variants: a case-sensitive substring test, an exclusive bound.)
check_payee_contains_cased(rule, transaction) ==
    Truthy(rule.payee_contains) =>
        str_in(Val(rule.payee_contains), transaction.payee)

check_payee_contains(rule, transaction) ==
    Truthy(rule.payee_contains) =>
        str_in(str_lower(Val(rule.payee_contains)), str_lower(transaction.payee))

check_description_contains(rule, transaction) ==
    Truthy(rule.description_contains) =>
        str_in(str_lower(Val(rule.description_contains)),
               str_lower(transaction.description))

\* Faulty variant of the payee_regex check: a pattern that does not compile
\* is skipped, as a condition that is not set.
check_payee_regex_skipping(rule, transaction) ==
    (Truthy(rule.payee_regex) /\ re_compile_ok(Val(rule.payee_regex))) =>
        re_search(Val(rule.payee_regex), transaction.payee)

check_payee_regex(rule, transaction) ==
    Truthy(rule.payee_regex) =>
        /\ re_compile_ok(Val(rule.payee_regex))
        /\ re_search(Val(rule.payee_regex), transaction.payee)

check_description_regex(rule, transaction) ==
    Truthy(rule.description_regex) =>
        /\ re_compile_ok(Val(rule.description_regex))
        /\ re_search(Val(rule.description_regex), transaction.description)

check_amount_min_strict(rule, transaction) ==
    ~IsNone(rule.amount_min) =>
        /\ ~IsNone(transaction.amount)
        /\ Val(transaction.amount) > Val(rule.amount_min)

check_amount_min(rule, transaction) ==
    ~IsNone(rule.amount_min) =>
        /\ ~IsNone(transaction.amount)
        /\ ~(Val(transaction.amount) < Val(rule.amount_min))

check_amount_max(rule, transaction) ==
    ~IsNone(rule.amount_max) =>
        /\ ~IsNone(transaction.amount)
        /\ ~(Val(transaction.amount) > Val(rule.amount_max))

check_currency(rule, transaction) ==
    Truthy(rule.currency) =>
        str_upper(transaction.currency) = str_upper(Val(rule.currency))

\* TagRuleService._evaluate_rule.
_evaluate_rule(rule, transaction, user_id) ==
    /\ _transaction_belongs_to_user(transaction, user_id)
    /\ check_payee_contains(rule, transaction)
    /\ check_description_contains(rule, transaction)
    /\ check_payee_regex(rule, transaction)
    /\ check_description_regex(rule, transaction)
    /\ check_amount_min(rule, transaction)
    /\ check_amount_max(rule, transaction)
    /\ check_currency(rule, transaction)

-----------------------------------------------------------------------------
(* Rule persistence: TagRuleService.create_tag_rule and update_tag_rule.    *)

\* The row TagRuleRepository.create stores for validated data; created_at is
\* the position of the creation in time.
NewRule(rs, d) ==
    [id |-> Len(rs) + 1, user_id |-> d.user_id, tag_id |-> d.tag_id,
     enabled |-> d.enabled, priority |-> d.priority,
     payee_contains |-> d.payee_contains,
     description_contains |-> d.description_contains,
     payee_regex |-> d.payee_regex,
     description_regex |-> d.description_regex,
     amount_min |-> d.amount_min, amount_max |-> d.amount_max,
     currency |-> d.currency, created_at |-> Len(rs) + 1,
     updated_at |-> Len(rs) + 1]

\* The time stored in a rule as that of its last update (0 for no rule).
StoredTime(rs, rule_id) ==
    IF IsNone(rule_get_by_id(rs, rule_id)) THEN 0 ELSE Val(rs[rule_id]).updated_at

\* update_tag_rule, after the repository's update: updated_at is set to
\* datetime.utcnow(), the reading `now` of the clock, and the row is
\* committed again.
refresh_updated_at(r, rule_id, now) ==
    IF r.error # "ok" THEN r
    ELSE [r EXCEPT !.rules[rule_id] = Some([Val(@) EXCEPT !.updated_at = now])]

\* TagRuleService.create_tag_rule on the raw request data: the validation of
\* the request model, the tag ownership check, then the insert.
create_tag_rule(tg, rs, d) ==
    IF ~TagRuleCreate(d)
    THEN [error |-> "ValidationError", rules |-> rs]
    ELSE IF IsNone(tag_get_by_id(tg, d.tag_id))
    THEN [error |-> "TagNotFoundError", rules |-> rs]
    ELSE IF Val(tag_get_by_id(tg, d.tag_id)).user_id # d.user_id
    THEN [error |-> "TagRuleOwnershipError", rules |-> rs]
    ELSE [error |-> "ok", rules |-> Append(rs, Some(NewRule(rs, d)))]

\* The columns of tag_rules that are NOT NULL and that an update can write.
RequiredFields == {"tag_id", "enabled", "priority"}

UpdateFields == RequiredFields \cup ConditionFields

\* TagRuleRepository.update: every field of model_dump(exclude_unset=True) is
\* written to the row; the commit is refused when a NOT NULL column gets None.
repository_update(rs, rule_id, d) ==
    IF \E f \in d.set \cap RequiredFields : IsNone(d[f])
    THEN [error |-> "IntegrityError", rules |-> rs]
    ELSE LET old == Val(rs[rule_id])
             new == [f \in DOMAIN old |->
                        IF f \in d.set
                        THEN IF f \in RequiredFields THEN Val(d[f]) ELSE d[f]
                        ELSE old[f]]
         IN [error |-> "ok", rules |-> [rs EXCEPT ![rule_id] = Some(new)]]

\* Faulty variant of update_tag_rule: the owner of the new tag is not looked
\* at.
update_tag_rule_any_tag(tg, rs, rule_id, d, now) ==
    IF ~TagRuleUpdate(d)
    THEN [error |-> "ValidationError", rules |-> rs]
    ELSE IF IsNone(rule_get_by_id(rs, rule_id))
    THEN [error |-> "TagRuleNotFoundError", rules |-> rs]
    ELSE IF ~IsNone(d.tag_id) /\ IsNone(tag_get_by_id(tg, Val(d.tag_id)))
    THEN [error |-> "TagNotFoundError", rules |-> rs]
    ELSE refresh_updated_at(repository_update(rs, rule_id, d), rule_id, now)

\* Faulty variant of update_tag_rule: updated_at is left as it was.
update_tag_rule_no_refresh(tg, rs, rule_id, d, now) ==
    IF ~TagRuleUpdate(d)
    THEN [error |-> "ValidationError", rules |-> rs]
    ELSE IF IsNone(rule_get_by_id(rs, rule_id))
    THEN [error |-> "TagRuleNotFoundError", rules |-> rs]
    ELSE IF ~IsNone(d.tag_id) /\ IsNone(tag_get_by_id(tg, Val(d.tag_id)))
    THEN [error |-> "TagNotFoundError", rules |-> rs]
    ELSE IF /\ ~IsNone(d.tag_id)
            /\ Val(tag_get_by_id(tg, Val(d.tag_id))).user_id
                 # Val(rs[rule_id]).user_id
    THEN [error |-> "TagRuleOwnershipError", rules |-> rs]
    ELSE repository_update(rs, rule_id, d)

\* TagRuleService.update_tag_rule on the raw request data, at time `now`.
update_tag_rule(tg, rs, rule_id, d, now) ==
    IF ~TagRuleUpdate(d)
    THEN [error |-> "ValidationError", rules |-> rs]
    ELSE IF IsNone(rule_get_by_id(rs, rule_id))
    THEN [error |-> "TagRuleNotFoundError", rules |-> rs]
    ELSE IF ~IsNone(d.tag_id) /\ IsNone(tag_get_by_id(tg, Val(d.tag_id)))
    THEN [error |-> "TagNotFoundError", rules |-> rs]
    ELSE IF /\ ~IsNone(d.tag_id)
            /\ Val(tag_get_by_id(tg, Val(d.tag_id))).user_id
                 # Val(rs[rule_id]).user_id
    THEN [error |-> "TagRuleOwnershipError", rules |-> rs]
    ELSE refresh_updated_at(repository_update(rs, rule_id, d), rule_id, now)

-----------------------------------------------------------------------------
(* Tag association writer and the two apply entry points, each run from its *)
(* first statement to its return with no other request in between.          *)

\* Faulty variant of the writer: no existence check, always reports a new
\* association.
apply_tag_unchecked(a, transaction_id, tag_id) ==
    [newly_applied |-> TRUE,
     assocs |-> transaction_tag_create(a, transaction_id, tag_id).assocs]

\* TagRuleService._apply_tag_to_transaction.
_apply_tag_to_transaction(a, transaction_id, tag_id) ==
    IF transaction_tag_get_by_ids(a, transaction_id, tag_id)
    THEN [newly_applied |-> FALSE, assocs |-> a]
    ELSE [newly_applied |-> TRUE,
          assocs |-> transaction_tag_create(a, transaction_id, tag_id).assocs]

\* Faulty variant of the single-path loop body: writes in dry-run mode too.
single_rule_step_writes(st, rule, transaction, user_id, dry_run) ==
    IF ~_evaluate_rule(rule, transaction, user_id) THEN st
    ELSE IF transaction_tag_get_by_ids(st.assocs, transaction.id, rule.tag_id)
    THEN st
    ELSE [assocs |-> transaction_tag_create(st.assocs, transaction.id,
                                            rule.tag_id).assocs,
          applied_tags |-> Append(st.applied_tags, rule.tag_id)]

\* The loop body of apply_rules_to_transaction for one rule; st carries the
\* association table and the applied_tags list.
single_rule_step(st, rule, transaction, user_id, dry_run) ==
    IF ~_evaluate_rule(rule, transaction, user_id) THEN st
    ELSE IF ~dry_run
    THEN LET w == _apply_tag_to_transaction(st.assocs, transaction.id, rule.tag_id)
         IN [assocs |-> w.assocs,
             applied_tags |-> IF w.newly_applied
                              THEN Append(st.applied_tags, rule.tag_id)
                              ELSE st.applied_tags]
    ELSE IF transaction_tag_get_by_ids(st.assocs, transaction.id, rule.tag_id)
    THEN st
    ELSE [st EXCEPT !.applied_tags = Append(@, rule.tag_id)]

\* Faulty variant of the single-path loop: it stops at the first rule that
\* matches.
RECURSIVE single_loop_first_match(_, _, _, _, _, _)
single_loop_first_match(st, rl, k, transaction, user_id, dry_run) ==
    IF k > Len(rl) THEN st
    ELSE IF _evaluate_rule(rl[k], transaction, user_id)
    THEN single_rule_step(st, rl[k], transaction, user_id, dry_run)
    ELSE single_loop_first_match(st, rl, k + 1, transaction, user_id, dry_run)

RECURSIVE single_loop(_, _, _, _, _, _)
single_loop(st, rl, k, transaction, user_id, dry_run) ==
    IF k > Len(rl) THEN st
    ELSE single_loop(single_rule_step(st, rl[k], transaction, user_id, dry_run),
                     rl, k + 1, transaction, user_id, dry_run)

\* Faulty variant of apply_rules_to_transaction: no check that the
\* transaction is stored; an absent one is reported as evaluated, unmatched.
apply_rules_to_transaction_unchecked(a, rs, txns, transaction_id, user_id, dry_run) ==
    LET rl == list_applicable_for_user(rs, user_id, TRUE)
        st == IF transaction_id \in DOMAIN txns
              THEN single_loop([assocs |-> a, applied_tags |-> <<>>], rl, 1,
                               txns[transaction_id], user_id, dry_run)
              ELSE [assocs |-> a, applied_tags |-> <<>>]
    IN [error |-> "ok", assocs |-> st.assocs, evaluated_count |-> 1,
        applied_count |-> Len(st.applied_tags),
        applied_tag_ids |-> st.applied_tags]

\* TagRuleService.apply_rules_to_transaction: the response and the table.
apply_rules_to_transaction(a, rs, txns, transaction_id, user_id, dry_run) ==
    IF transaction_id \notin DOMAIN txns
    THEN [error |-> "ValueError", assocs |-> a, evaluated_count |-> 0,
          applied_count |-> 0, applied_tag_ids |-> <<>>]
    ELSE LET rl == list_applicable_for_user(rs, user_id, TRUE)
             st == single_loop([assocs |-> a, applied_tags |-> <<>>], rl, 1,
                               txns[transaction_id], user_id, dry_run)
         IN [error |-> "ok", assocs |-> st.assocs, evaluated_count |-> 1,
             applied_count |-> Len(st.applied_tags),
             applied_tag_ids |-> st.applied_tags]

\* datetime.date(): the day of a datetime <<day, hour>>.
date(dt) == dt[1]

\* Faulty variant of the transaction query: statement_id is applied also
\* when transaction_id is given.
candidate_transactions_both_filters(txns, user_id, request) ==
    LET selected(t) ==
            /\ t \in DOMAIN txns
            /\ credit_cards[card_statements[txns[t].statement_id]] = user_id
            /\ (~IsNone(request.transaction_id) =>
                    t = Val(request.transaction_id))
            /\ (~IsNone(request.statement_id) =>
                    txns[t].statement_id = Val(request.statement_id))
            /\ (~IsNone(request.date_from) =>
                    txns[t].txn_date >= date(Val(request.date_from)))
            /\ (~IsNone(request.date_to) =>
                    txns[t].txn_date <= date(Val(request.date_to)))
    IN SelectSeq(TxnOrder, selected)

\* Faulty variant of the transaction query: the ownership join without the
\* request's filters.
candidate_transactions_unfiltered(txns, user_id, request) ==
    LET selected(t) ==
            /\ t \in DOMAIN txns
            /\ credit_cards[card_statements[txns[t].statement_id]] = user_id
    IN SelectSeq(TxnOrder, selected)

\* The transaction query of apply_rules: the ownership join and the filters.
candidate_transactions(txns, user_id, request) ==
    LET selected(t) ==
            /\ t \in DOMAIN txns
            /\ credit_cards[card_statements[txns[t].statement_id]] = user_id
            /\ IF ~IsNone(request.transaction_id)
               THEN t = Val(request.transaction_id)
               ELSE ~IsNone(request.statement_id) =>
                        txns[t].statement_id = Val(request.statement_id)
            /\ (~IsNone(request.date_from) =>
                    txns[t].txn_date >= date(Val(request.date_from)))
            /\ (~IsNone(request.date_to) =>
                    txns[t].txn_date <= date(Val(request.date_to)))
    IN SelectSeq(TxnOrder, selected)

\* Faulty variant of the loop body of apply_rules: a would-apply is counted
\* and no detail record is kept of it.
bulk_pair_step_no_detail(st, rule, transaction, user_id, dry_run) ==
    IF ~_evaluate_rule(rule, transaction, user_id) THEN st
    ELSE IF transaction_tag_get_by_ids(st.assocs, transaction.id, rule.tag_id)
    THEN st
    ELSE IF ~dry_run
    THEN [st EXCEPT
            !.assocs = _apply_tag_to_transaction(@, transaction.id,
                                                 rule.tag_id).assocs,
            !.applied_count = @ + 1]
    ELSE [st EXCEPT !.applied_count = @ + 1]

\* The loop body of apply_rules for one (transaction, rule) pair; st carries
\* the association table, applied_count and details.
bulk_pair_step(st, rule, transaction, user_id, dry_run) ==
    IF ~_evaluate_rule(rule, transaction, user_id) THEN st
    ELSE IF transaction_tag_get_by_ids(st.assocs, transaction.id, rule.tag_id)
    THEN st
    ELSE IF ~dry_run
    THEN [st EXCEPT
            !.assocs = _apply_tag_to_transaction(@, transaction.id,
                                                 rule.tag_id).assocs,
            !.applied_count = @ + 1]
    ELSE [st EXCEPT
            !.applied_count = @ + 1,
            !.details = Append(@, [transaction_id |-> transaction.id,
                                   tag_id |-> rule.tag_id,
                                   rule_id |-> rule.id])]

\* Faulty variant of the loops of apply_rules: the rules in the outer loop,
\* the transactions in the inner one.
RECURSIVE bulk_loop_rules_outer(_, _, _, _, _, _, _, _)
bulk_loop_rules_outer(st, txns, tl, rl, i, j, user_id, dry_run) ==
    IF j > Len(rl) THEN st
    ELSE IF i > Len(tl)
    THEN bulk_loop_rules_outer(st, txns, tl, rl, 1, j + 1, user_id, dry_run)
    ELSE bulk_loop_rules_outer(
             bulk_pair_step(st, rl[j], txns[tl[i]], user_id, dry_run),
             txns, tl, rl, i + 1, j, user_id, dry_run)

RECURSIVE bulk_loop(_, _, _, _, _, _, _, _)
bulk_loop(st, txns, tl, rl, i, j, user_id, dry_run) ==
    IF i > Len(tl) THEN st
    ELSE IF j > Len(rl) THEN bulk_loop(st, txns, tl, rl, i + 1, 1, user_id, dry_run)
    ELSE bulk_loop(bulk_pair_step(st, rl[j], txns[tl[i]], user_id, dry_run),
                   txns, tl, rl, i, j + 1, user_id, dry_run)

\* Faulty variant of apply_rules: evaluated_count counts the (transaction,
\* rule) pairs evaluated.
apply_rules_counting_pairs(a, rs, txns, user_id, request) ==
    LET tl == candidate_transactions(txns, user_id, request)
        rl == list_applicable_for_user(rs, user_id, TRUE)
        st == bulk_loop([assocs |-> a, applied_count |-> 0, details |-> <<>>],
                        txns, tl, rl, 1, 1, user_id, request.dry_run)
    IN [error |-> "ok", assocs |-> st.assocs,
        evaluated_count |-> Len(tl) * Len(rl), applied_count |-> st.applied_count,
        details |-> IF request.dry_run THEN Some(st.details) ELSE None]

\* TagRuleService.apply_rules: the response and the table.
apply_rules(a, rs, txns, user_id, request) ==
    LET tl == candidate_transactions(txns, user_id, request)
        rl == list_applicable_for_user(rs, user_id, TRUE)
        st == bulk_loop([assocs |-> a, applied_count |-> 0, details |-> <<>>],
                        txns, tl, rl, 1, 1, user_id, request.dry_run)
    IN [error |-> "ok", assocs |-> st.assocs,
        evaluated_count |-> Len(tl), applied_count |-> st.applied_count,
        details |-> IF request.dry_run THEN Some(st.details) ELSE None]

-----------------------------------------------------------------------------
(* Requests.                                                                *)

NoFilter ==
    [transaction_id |-> None, statement_id |-> None,
     date_from |-> None, date_to |-> None]

\* The record kept of the last completed request: what was asked and the
\* response's error and applied_count.
Response(op, dry_run, error, applied_count) ==
    [op |-> op, dry_run |-> dry_run, error |-> error,
     applied_count |-> applied_count]

NoConditions ==
    [payee_contains |-> None, description_contains |-> None,
     payee_regex |-> None, description_regex |-> None,
     amount_min |-> None, amount_max |-> None, currency |-> None]

\* Match conditions of the apply scenarios: "a" is found in the payees of t1
\* and t2 and not in the payee of t3.
ApplyConditions ==
    {[NoConditions EXCEPT !.payee_contains = Some(<<"a">>)]}

\* Match conditions of the rule maintenance scenarios: each field alone, an
\* empty string, a pattern that does not compile, and none at all.
RuleConditions ==
    {[NoConditions EXCEPT !.payee_contains = Some(<<"a">>)],
     [NoConditions EXCEPT !.payee_contains = Some(<<>>)],
     [NoConditions EXCEPT !.description_contains = Some(<<"A">>)],
     [NoConditions EXCEPT !.payee_regex = Some(<<"a", ".">>)],
     [NoConditions EXCEPT !.payee_regex = Some(<<"[", "a">>)],
     [NoConditions EXCEPT !.description_regex = Some(<<"[">>),
                          !.amount_max = Some(50)],
     [NoConditions EXCEPT !.description_regex = Some(<<"b">>)],
     [NoConditions EXCEPT !.amount_min = Some(60)],
     [NoConditions EXCEPT !.amount_max = Some(50)],
     [NoConditions EXCEPT !.currency = Some(<<"u">>)],
     NoConditions}

\* TagRuleCreate request data over a set of match conditions.
CreateInputs(conds, enabled, priorities) ==
    {[user_id |-> u, tag_id |-> g, enabled |-> e, priority |-> p,
      payee_contains |-> c.payee_contains,
      description_contains |-> c.description_contains,
      payee_regex |-> c.payee_regex,
      description_regex |-> c.description_regex,
      amount_min |-> c.amount_min, amount_max |-> c.amount_max,
      currency |-> c.currency] :
        u \in Users, g \in TagIds, e \in enabled, p \in priorities, c \in conds}

\* TagRuleUpdate request data: the fields passed (set) and their values.
UpdateData(set, tag_id, enabled, priority, c) ==
    [set |-> set, tag_id |-> tag_id, enabled |-> enabled, priority |-> priority,
     payee_contains |-> c.payee_contains,
     description_contains |-> c.description_contains,
     payee_regex |-> c.payee_regex,
     description_regex |-> c.description_regex,
     amount_min |-> c.amount_min, amount_max |-> c.amount_max,
     currency |-> c.currency]

\* Updates of the tag alone, to each tag id.
UpdateTagInputs ==
    {UpdateData({"tag_id"}, Some(g), None, None, NoConditions) : g \in TagIds}

\* Updates of one match field to its value in c, for c in conds.
UpdateConditionInputs(fields, conds) ==
    {UpdateData({f}, None, None, None, c) : f \in fields, c \in conds}

\* Updates that pass every field, as TagRuleUpdateIn.to_update builds them.
UpdateAllInputs(conds) ==
    {UpdateData(UpdateFields, g, e, p, c) :
        g \in {None} \cup {Some(t) : t \in TagIds},
        e \in {Some(TRUE)}, p \in {Some(100)}, c \in conds}

\* Filters of the bulk apply requests.
BulkFilters ==
    {NoFilter,
     [NoFilter EXCEPT !.transaction_id = Some("t1")],
     [NoFilter EXCEPT !.statement_id = Some("s2")]}

\* The tags the users ask for: u1 two labels, u2 a label u1 also uses.
TagInputs == {<<"u1", "Shopping">>, <<"u1", "Food">>, <<"u2", "Shopping">>}

BulkRequest(filter, dry_run) ==
    [transaction_id |-> filter.transaction_id,
     statement_id |-> filter.statement_id,
     date_from |-> filter.date_from, date_to |-> filter.date_to,
     dry_run |-> dry_run]

\* Transaction ids of the single apply requests; "t9" is not stored.
SingleTxnIds == TxnIds \cup {"t9"}

-----------------------------------------------------------------------------
(* Initial state: empty tag, rule and association tables.                   *)

Idle == [pc |-> "idle"]

Init ==
    /\ tags = <<>>
    /\ rules = <<>>
    /\ assocs = [p \in Pairs |-> 0]
    /\ transactions = TxnTable
    /\ last = Response("none", FALSE, "ok", 0)
    /\ procs = [w \in Workers |-> Idle]

-----------------------------------------------------------------------------
(* Requests served one at a time.                                           *)

\* TagService.create_tag.
CreateTag(user_id, label) ==
    /\ procs = [w \in Workers |-> Idle]
    /\ IF tag_get_by_user_and_label(tags, user_id, label)
       THEN /\ last' = Response("create_tag", FALSE, "DuplicateTagLabelError", 0)
            /\ UNCHANGED tags
       ELSE /\ Len(tags) < MaxTags
            /\ tags' = Append(tags, Some([user_id |-> user_id, label |-> label]))
            /\ last' = Response("create_tag", FALSE, "ok", 0)
    /\ UNCHANGED <<rules, assocs, transactions, procs>>

\* POST of a tag rule: TagRuleService.create_tag_rule, while fewer than cap
\* rule ids are allocated.
CreateTagRuleUpTo(d, cap) ==
    /\ procs = [w \in Workers |-> Idle]
    /\ LET r == create_tag_rule(tags, rules, d)
       IN /\ r.error = "ok" => Len(rules) < cap
          /\ rules' = r.rules
          /\ last' = Response("create_tag_rule", FALSE, r.error, 0)
    /\ UNCHANGED <<tags, assocs, transactions, procs>>

CreateTagRule(d) == CreateTagRuleUpTo(d, MaxRules)

\* TagService.update_tag.
UpdateTag(tag_id, label) ==
    /\ procs = [w \in Workers |-> Idle]
    /\ LET r == update_tag(tags, tag_id, label)
       IN /\ tags' = r.tags
          /\ last' = Response("update_tag", FALSE, r.error, 0)
    /\ UNCHANGED <<rules, assocs, transactions, procs>>

\* TagService.delete_tag; enforced: does the database enforce the foreign
\* key of tag_rules.tag_id.
DeleteTag(tag_id, enforced) ==
    /\ procs = [w \in Workers |-> Idle]
    /\ LET r == delete_tag(tags, rules, tag_id, enforced)
       IN /\ tags' = r.tags
          /\ rules' = r.rules
          /\ last' = Response("delete_tag", FALSE, r.error, 0)
    /\ UNCHANGED <<assocs, transactions, procs>>

\* PATCH of a tag rule: TagRuleService.update_tag_rule, the clock reading
\* `now`.
UpdateTagRuleAt(rule_id, d, now) ==
    /\ procs = [w \in Workers |-> Idle]
    /\ LET r == update_tag_rule(tags, rules, rule_id, d, now)
       IN /\ rules' = r.rules
          /\ last' = Response("update_tag_rule", FALSE, r.error, 0)
    /\ UNCHANGED <<tags, assocs, transactions, procs>>

\* An update made while the clock still reads the time stored in the rule.
UpdateTagRule(rule_id, d) ==
    UpdateTagRuleAt(rule_id, d, StoredTime(rules, rule_id))

\* TagRuleService.apply_rules_to_transaction, uninterrupted.
ApplySingle(transaction_id, user_id, dry_run) ==
    /\ procs = [w \in Workers |-> Idle]
    /\ LET r == apply_rules_to_transaction(assocs, rules, transactions,
                                           transaction_id, user_id, dry_run)
       IN /\ assocs' = r.assocs
          /\ last' = Response("single", dry_run, r.error, r.applied_count)
    /\ UNCHANGED <<tags, rules, transactions, procs>>

\* TagRuleService.apply_rules, uninterrupted.
ApplyBulk(user_id, filter, dry_run) ==
    /\ procs = [w \in Workers |-> Idle]
    /\ LET r == apply_rules(assocs, rules, transactions, user_id,
                            BulkRequest(filter, dry_run))
       IN /\ assocs' = r.assocs
          /\ last' = Response("bulk", dry_run, r.error, r.applied_count)
    /\ UNCHANGED <<tags, rules, transactions, procs>>

Next ==
    \/ \E x \in TagInputs : CreateTag(x[1], x[2])
    \/ \E d \in CreateInputs(ApplyConditions, {TRUE}, {100}) : CreateTagRule(d)
    \/ \E i \in RuleIds, d \in UpdateTagInputs : UpdateTagRule(i, d)
    \/ \E t \in TxnIds, u \in Users, dry \in BOOLEAN : ApplySingle(t, u, dry)
    \/ \E u \in Users, f \in BulkFilters, dry \in BOOLEAN : ApplyBulk(u, f, dry)

Spec == Init /\ [][Next]_vars

-----------------------------------------------------------------------------
(* Properties of the apply engine, requests served one at a time (Spec).    *)

CommitSingle(a, t, u) ==
    apply_rules_to_transaction(a, rules, transactions, t, u, FALSE)

DrySingle(a, t, u) ==
    apply_rules_to_transaction(a, rules, transactions, t, u, TRUE)

CommitBulk(a, u, f) ==
    apply_rules(a, rules, transactions, u, BulkRequest(f, FALSE))

DryBulk(a, u, f) ==
    apply_rules(a, rules, transactions, u, BulkRequest(f, TRUE))

\* The enabled rules of user u that match transaction t for acting user u.
MatchingRules(u, t) ==
    {i \in StoredRuleIds(rules) :
        /\ Val(rules[i]).user_id = u
        /\ Val(rules[i]).enabled
        /\ _evaluate_rule(Val(rules[i]), transactions[t], u)}

\* C1: a committing apply (single or bulk) run twice in a row with nothing in
\* between leaves exactly one association for every (transaction, tag) pair
\* that matched, and the second run reports applied_count = 0 (and, single
\* path, an empty applied_tag_ids) and writes nothing.
IdempotentCommit ==
    \A u \in Users :
        /\ \A t \in TxnIds :
             LET r1 == CommitSingle(assocs, t, u)
                 r2 == CommitSingle(r1.assocs, t, u)
             IN /\ r2.applied_count = 0
                /\ r2.applied_tag_ids = <<>>
                /\ r2.assocs = r1.assocs
                /\ \A i \in MatchingRules(u, t) :
                       r2.assocs[<<t, Val(rules[i]).tag_id>>] = 1
        /\ \A f \in BulkFilters :
             LET r1 == CommitBulk(assocs, u, f)
                 r2 == CommitBulk(r1.assocs, u, f)
                 tl == candidate_transactions(transactions, u, BulkRequest(f, FALSE))
             IN /\ r2.applied_count = 0
                /\ r2.assocs = r1.assocs
                /\ \A k \in 1..Len(tl) : \A i \in MatchingRules(u, tl[k]) :
                       r2.assocs[<<tl[k], Val(rules[i]).tag_id>>] = 1

\* Witness of C1: a committing single apply has just created associations, so
\* the run that follows is a repetition with something to repeat.
CommitSingleApplied ==
    /\ last.op = "single" /\ ~last.dry_run /\ last.applied_count > 0
    /\ \E p \in Pairs : assocs[p] = 1

\* C2 as claimed: the applied_count of a dry-run equals the number of
\* associations a committing run of the same request creates right after it,
\* in the single and in the bulk path.
DryRunCommitParity ==
    \A u \in Users :
        /\ \A t \in TxnIds :
             DrySingle(assocs, t, u).applied_count
                = AssocCount(CommitSingle(assocs, t, u).assocs) - AssocCount(assocs)
        /\ \A f \in BulkFilters :
             DryBulk(assocs, u, f).applied_count
                = AssocCount(CommitBulk(assocs, u, f).assocs) - AssocCount(assocs)

\* C5: whatever rules were created or updated, every association a committing
\* apply by user u creates (single or bulk) sits on a transaction whose
\* ownership chain leads to u, and every rule the run applies is owned by u:
\* no rule of one user tags a transaction of another.
OwnershipIsolation ==
    \A u \in Users :
        /\ LET rl == list_applicable_for_user(rules, u, TRUE)
           IN \A k \in 1..Len(rl) : rl[k].user_id = u
        /\ \A t \in TxnIds :
               LET r == CommitSingle(assocs, t, u).assocs
               IN \A p \in Pairs : r[p] > assocs[p] => TxnOwner(p[1]) = u
        /\ \A f \in BulkFilters :
               LET r == CommitBulk(assocs, u, f).assocs
               IN \A p \in Pairs : r[p] > assocs[p] => TxnOwner(p[1]) = u

\* Witness of C5: an enabled rule of one user matches, by content, a
\* transaction of another user, a committing apply has completed, and the
\* transaction does not carry the rule's tag.
ForeignContentMatch ==
    /\ last.op \in {"single", "bulk"} /\ ~last.dry_run /\ last.error = "ok"
    /\ \E i \in StoredRuleIds(rules) : \E t \in TxnIds :
           LET r == Val(rules[i])
           IN /\ r.enabled
              /\ TxnOwner(t) # r.user_id
              /\ _evaluate_rule(r, transactions[t], TxnOwner(t))
              /\ assocs[<<t, r.tag_id>>] = 0

\* C6: from the same state, a committing single apply of transaction t by
\* user u and a committing bulk apply by u filtered to transaction_id = t
\* leave the same association table and report the same applied_count; both
\* create nothing when t does not belong to u.
SingleBulkEquivalence ==
    \A u \in Users : \A t \in TxnIds :
        LET s == CommitSingle(assocs, t, u)
            b == CommitBulk(assocs, u, [NoFilter EXCEPT !.transaction_id = Some(t)])
        IN /\ s.assocs = b.assocs
           /\ s.applied_count = b.applied_count
           /\ (TxnOwner(t) # u => s.assocs = assocs /\ b.assocs = assocs)

\* Witness of C6: a state in which a single apply would create associations
\* for some transaction, and rules of another user match that transaction by
\* content.
SingleWouldApply ==
    \E u \in Users : \E t \in TxnIds : \E v \in Users :
        /\ CommitSingle(assocs, t, u).applied_count > 0
        /\ v # u
        /\ \E i \in StoredRuleIds(rules) :
               /\ Val(rules[i]).user_id = v /\ Val(rules[i]).enabled
               /\ _evaluate_rule(Val(rules[i]), transactions[t], u)

\* C7: a dry-run apply, single or bulk, writes nothing: the associations,
\* the rules, the tags and the transactions are the same after it.  (Only the
\* dry-run apply requests leave dry_run set in the record of the last request.)
DryRunWritesNothing ==
    [][last'.dry_run => UNCHANGED <<assocs, rules, tags, transactions>>]_vars

\* Witness of C7: a dry-run has just reported associations it would create.
DryRunWouldApply ==
    last.dry_run /\ last.applied_count > 0 /\ last.error = "ok"

-----------------------------------------------------------------------------
(* Concurrent committing apply requests (SpecConc).  Each worker serves one  *)
(* request; a step is one database operation of the request together with   *)
(* the in-memory work up to its next database operation.  Tags and rules    *)
(* are set up while no request is in flight.                                *)

\* The user whose requests run concurrently, and what they ask for.
ConcUser == "u1"
ConcTagInputs == {x \in TagInputs : x[1] = ConcUser}
ConcCreateInputs ==
    {d \in CreateInputs(ApplyConditions, {TRUE}, {100}) : d.user_id = ConcUser}
ConcSingleTxnIds == {"t1"}
ConcBulkFilters == {NoFilter}

\* The loops of apply_rules_to_transaction and apply_rules, from pair (i, j)
\* on: the first pair of a transaction tl[i] and a rule rl[j] for which
\* _evaluate_rule holds; i > Len(tl) when there is none.
RECURSIVE next_match(_, _, _, _, _, _)
next_match(txns, tl, rl, i, j, user_id) ==
    IF i > Len(tl) THEN [i |-> i, j |-> 1]
    ELSE IF j > Len(rl) THEN next_match(txns, tl, rl, i + 1, 1, user_id)
    ELSE IF _evaluate_rule(rl[j], txns[tl[i]], user_id) THEN [i |-> i, j |-> j]
    ELSE next_match(txns, tl, rl, i, j + 1, user_id)

\* The request of a worker moved to its next database operation on or after
\* pair (i, j): the existence check of the next matching pair (the one of
\* apply_rules for a bulk request, the writer's for a single one), or the
\* end of the request.
goto_pair(p, i, j) ==
    LET m == next_match(transactions, p.tl, p.rl, i, j, p.user_id)
    IN [p EXCEPT !.i = m.i, !.j = m.j,
                 !.pc = IF m.i > Len(p.tl) THEN "done"
                        ELSE IF p.kind = "bulk" THEN "outer_check"
                        ELSE "writer_check"]

\* A request starts: it reads its transactions and the user's enabled rules.
BeginSingle(w, transaction_id, user_id) ==
    /\ procs[w].pc = "idle"
    /\ transaction_id \in DOMAIN transactions
    /\ procs' = [procs EXCEPT ![w] =
           goto_pair([pc |-> "idle", kind |-> "single", user_id |-> user_id,
                      tl |-> <<transaction_id>>,
                      rl |-> list_applicable_for_user(rules, user_id, TRUE),
                      i |-> 1, j |-> 1, applied_count |-> 0,
                      applied_tags |-> <<>>, error |-> "ok"], 1, 1)]
    /\ UNCHANGED <<tags, rules, assocs, transactions, last>>

BeginBulk(w, user_id, filter) ==
    /\ procs[w].pc = "idle"
    /\ procs' = [procs EXCEPT ![w] =
           goto_pair([pc |-> "idle", kind |-> "bulk", user_id |-> user_id,
                      tl |-> candidate_transactions(transactions, user_id,
                                                    BulkRequest(filter, FALSE)),
                      rl |-> list_applicable_for_user(rules, user_id, TRUE),
                      i |-> 1, j |-> 1, applied_count |-> 0,
                      applied_tags |-> <<>>, error |-> "ok"], 1, 1)]
    /\ UNCHANGED <<tags, rules, assocs, transactions, last>>

\* apply_rules, the existence check before the writer is called.
OuterCheck(w) ==
    LET p == procs[w]
    IN /\ p.pc = "outer_check"
       /\ procs' = [procs EXCEPT ![w] =
              IF transaction_tag_get_by_ids(assocs, p.tl[p.i], p.rl[p.j].tag_id)
              THEN goto_pair(p, p.i, p.j + 1)
              ELSE [p EXCEPT !.pc = "writer_check"]]
       /\ UNCHANGED <<tags, rules, assocs, transactions, last>>

\* _apply_tag_to_transaction, the existence check: a stored pair makes the
\* writer return False.  apply_rules counts the pair whatever the writer
\* returns; apply_rules_to_transaction lists the tag only when it returns True.
WriterCheck(w) ==
    LET p == procs[w]
    IN /\ p.pc = "writer_check"
       /\ procs' = [procs EXCEPT ![w] =
              IF transaction_tag_get_by_ids(assocs, p.tl[p.i], p.rl[p.j].tag_id)
              THEN goto_pair([p EXCEPT !.applied_count =
                                 IF p.kind = "bulk" THEN @ + 1 ELSE @],
                             p.i, p.j + 1)
              ELSE [p EXCEPT !.pc = "insert"]]
       /\ UNCHANGED <<tags, rules, assocs, transactions, last>>

\* _apply_tag_to_transaction, the insert: the writer returns True, or the
\* insert's error leaves the writer and the request uncaught.
Insert(w) ==
    LET p == procs[w]
        r == transaction_tag_create(assocs, p.tl[p.i], p.rl[p.j].tag_id)
    IN /\ p.pc = "insert"
       /\ assocs' = r.assocs
       /\ procs' = [procs EXCEPT ![w] =
              IF r.ok
              THEN goto_pair([p EXCEPT
                                 !.applied_count =
                                     IF p.kind = "bulk" THEN @ + 1 ELSE @,
                                 !.applied_tags =
                                     IF p.kind = "single"
                                     THEN Append(@, p.rl[p.j].tag_id) ELSE @],
                             p.i, p.j + 1)
              ELSE [p EXCEPT !.pc = "failed", !.error = "IntegrityError"]]
       /\ UNCHANGED <<tags, rules, transactions, last>>

\* The response leaves the worker.
Finish(w) ==
    LET p == procs[w]
    IN /\ p.pc \in {"done", "failed"}
       /\ last' = Response(p.kind, FALSE, p.error,
                           IF p.kind = "bulk" THEN p.applied_count
                           ELSE Len(p.applied_tags))
       /\ procs' = [procs EXCEPT ![w] = Idle]
       /\ UNCHANGED <<tags, rules, assocs, transactions>>

NextConc ==
    \/ \E x \in ConcTagInputs : CreateTag(x[1], x[2])
    \/ \E d \in ConcCreateInputs : CreateTagRule(d)
    \/ \E w \in Workers, t \in ConcSingleTxnIds : BeginSingle(w, t, ConcUser)
    \/ \E w \in Workers, f \in ConcBulkFilters : BeginBulk(w, ConcUser, f)
    \/ \E w \in Workers : OuterCheck(w)
    \/ \E w \in Workers : WriterCheck(w)
    \/ \E w \in Workers : Insert(w)
    \/ \E w \in Workers : Finish(w)

SpecConc == Init /\ [][NextConc]_vars

\* C3: in every state reached by interleaved committing apply requests of
\* one user, single or bulk, the association table holds each
\* (transaction id, tag id) pair at most once.
AtMostOneAssociation ==
    \A p \in Pairs : assocs[p] <= 1

\* Witness of C3: two requests are both past the existence check of the same
\* absent pair and about to insert it.
TwoInsertsPending ==
    \E v \in Workers, w \in Workers :
        /\ v # w
        /\ procs[v].pc = "insert" /\ procs[w].pc = "insert"
        /\ procs[v].tl[procs[v].i] = procs[w].tl[procs[w].i]
        /\ procs[v].rl[procs[v].j].tag_id = procs[w].rl[procs[w].j].tag_id
        /\ assocs[<<procs[v].tl[procs[v].i], procs[v].rl[procs[v].j].tag_id>>] = 0

\* C4 as claimed: no committing apply request ends in an error; a request
\* that loses the race for a pair completes normally.
RaceLoserCompletes ==
    \A w \in Workers : procs[w].pc # "failed"

-----------------------------------------------------------------------------
(* Rule maintenance (SpecRules): tags are created, rules are created and    *)
(* updated with valid and invalid data.                                     *)

PayeeRule == [NoConditions EXCEPT !.payee_contains = Some(<<"a">>)]
BadPayeeRegex == [NoConditions EXCEPT !.payee_regex = Some(<<"[", "a">>)]

\* Match conditions of the creations: valid ones, patterns that do not
\* compile, and none.
RuleCreateConditions ==
    {PayeeRule,
     [NoConditions EXCEPT !.payee_regex = Some(<<"a", ".">>)],
     BadPayeeRegex,
     [NoConditions EXCEPT !.description_regex = Some(<<"[">>),
                          !.amount_max = Some(50)],
     NoConditions}

\* The updates: of the tag alone, of one match field (cleared, or set to a
\* pattern that does not compile), and of every field at once.
RuleUpdateInputs ==
    UpdateTagInputs
    \cup UpdateConditionInputs({"payee_contains", "payee_regex"},
                               {NoConditions, BadPayeeRegex})
    \cup UpdateAllInputs({PayeeRule})

NextRules ==
    \/ \E x \in TagInputs : CreateTag(x[1], x[2])
    \/ \E d \in CreateInputs(RuleCreateConditions, {TRUE}, {100}) : CreateTagRule(d)
    \/ \E i \in RuleIds, d \in RuleUpdateInputs : UpdateTagRule(i, d)

SpecRules == Init /\ [][NextRules]_vars

\* Does data d name at least one match condition / only patterns that compile.
HasCondition(d) == \E f \in ConditionFields : ~IsNone(d[f])
RegexesCompile(d) ==
    /\ (~IsNone(d.payee_regex) => re_compile_ok(Val(d.payee_regex)))
    /\ (~IsNone(d.description_regex) => re_compile_ok(Val(d.description_regex)))

\* C8 as claimed: every stored rule has at least one of its seven match
\* fields non-null.
EveryRuleHasCondition ==
    \A i \in StoredRuleIds(rules) : HasCondition(Val(rules[i]))

\* C9: in every state, a creation whose data has no match condition, or a
\* payee_regex or description_regex that does not compile, ends in a
\* validation error and leaves the stored rules as they were.
InvalidCreateRejected ==
    \A d \in CreateInputs(RuleConditions, BOOLEAN, {100}) :
        (~HasCondition(d) \/ ~RegexesCompile(d)) =>
            LET r == create_tag_rule(tags, rules, d)
            IN r.error = "ValidationError" /\ r.rules = rules

\* Witness of C9: a creation has just been refused for its data, with the
\* tag it names stored and owned by some user.
CreateRefusedForData ==
    /\ last.op = "create_tag_rule" /\ last.error = "ValidationError"
    /\ tags # <<>>

\* C10: in every state, a creation whose tag is owned by another user than
\* the data's user_id, and an update of a stored rule's tag_id to a tag owned
\* by another user than the rule's, end in an ownership error and leave the
\* stored rules as they were.
ForeignTagRejected ==
    /\ \A d \in CreateInputs({PayeeRule}, BOOLEAN, {100}) :
           LET tag == tag_get_by_id(tags, d.tag_id)
           IN (~IsNone(tag) /\ Val(tag).user_id # d.user_id) =>
                  LET r == create_tag_rule(tags, rules, d)
                  IN r.error = "TagRuleOwnershipError" /\ r.rules = rules
    /\ \A i \in StoredRuleIds(rules) :
       \A d \in UpdateTagInputs \cup UpdateAllInputs({PayeeRule}) :
           LET tag == IF IsNone(d.tag_id) THEN None
                      ELSE tag_get_by_id(tags, Val(d.tag_id))
           IN (~IsNone(tag) /\ Val(tag).user_id # Val(rules[i]).user_id) =>
                  LET r == update_tag_rule(tags, rules, i, d, StoredTime(rules, i))
                  IN r.error = "TagRuleOwnershipError" /\ r.rules = rules

\* Witness of C10: an update of a stored rule has just been refused because
\* of the tag's owner.
UpdateRefusedForOwner ==
    /\ last.op = "update_tag_rule" /\ last.error = "TagRuleOwnershipError"
    /\ StoredRuleIds(rules) # {}

-----------------------------------------------------------------------------
(* Tag deletion with many rules on one tag (SpecCascade): one user keeps    *)
(* adding rules to a tag, and deletes tags.                                 *)

CascadeRule ==
    CHOOSE d \in CreateInputs({PayeeRule}, {TRUE}, {100}) :
        d.user_id = ConcUser /\ d.tag_id = 1

NextCascade ==
    \/ \E x \in ConcTagInputs : CreateTag(x[1], x[2])
    \/ CreateTagRuleUpTo(CascadeRule, ListLimit + 1)
    \/ \E g \in TagIds, enforced \in BOOLEAN : DeleteTag(g, enforced)

SpecCascade == Init /\ [][NextCascade]_vars

\* C11 as claimed: a step that removes a tag leaves no stored rule with that
\* tag_id, however many rules referenced it, so that get-by-id of each of
\* them fails as not found.
DeleteTagCascades ==
    [][\A g \in 1..Len(tags) :
          (~IsNone(tags[g]) /\ IsNone(tags'[g])) =>
              \A i \in 1..Len(rules) :
                  (~IsNone(rules[i]) /\ Val(rules[i]).tag_id = g) =>
                      IsNone(rule_get_by_id(rules', i))]_vars

-----------------------------------------------------------------------------
(* Tag maintenance (SpecTags): tags are created, relabelled and deleted,    *)
(* rules are created on them.                                               *)

AllTagInputs == Users \X Labels

NextTags ==
    \/ \E x \in AllTagInputs : CreateTag(x[1], x[2])
    \/ \E g \in TagIds, label \in Labels : UpdateTag(g, label)
    \/ \E g \in TagIds, enforced \in BOOLEAN : DeleteTag(g, enforced)
    \/ \E d \in CreateInputs({PayeeRule}, {TRUE}, {100}) : CreateTagRule(d)

SpecTags == Init /\ [][NextTags]_vars

\* C12 as claimed: in every state no two stored tags of one user carry the
\* same label.
LabelsUniquePerUser ==
    \A i \in 1..Len(tags) : \A j \in 1..Len(tags) :
        (i # j /\ ~IsNone(tags[i]) /\ ~IsNone(tags[j])
               /\ Val(tags[i]).user_id = Val(tags[j]).user_id)
            => Val(tags[i]).label # Val(tags[j]).label

-----------------------------------------------------------------------------
(* The predicate evaluator on many rules and transactions (SpecEval): the   *)
(* database starts with one of many versions of transaction t1, one rule is *)
(* created, and rules are applied to t1.                                    *)

\* The versions of transaction t1.
EvalTransactions ==
    {[TxnTable["t1"] EXCEPT !.payee = p, !.description = d,
                            !.amount = a, !.currency = c] :
        p \in {<<"A", "b">>, <<"a">>, <<"b">>},
        d \in {<<"a">>, <<"b">>, <<"a", "b">>},
        a \in {None, Some(0 - 1), Some(0), Some(50), Some(51)},
        c \in {<<"U">>, <<"E">>}}

\* Match conditions: every subset of the seven fields with one value each,
\* and single fields and pairs with other casings, empty strings and a
\* bound of 0.
EvalConditions ==
    {[payee_contains |-> pc, description_contains |-> dc, payee_regex |-> pr,
      description_regex |-> dr, amount_min |-> lo, amount_max |-> hi,
      currency |-> cu] :
        pc \in {None, Some(<<"a">>)}, dc \in {None, Some(<<"A">>)},
        pr \in {None, Some(<<"a", ".">>)}, dr \in {None, Some(<<"b">>)},
        lo \in {None, Some(50)}, hi \in {None, Some(50)},
        cu \in {None, Some(<<"u">>)}}
    \cup {[NoConditions EXCEPT !.payee_contains = Some(x)] :
            x \in {<<"A">>, <<"a", "B">>, <<"B", "a">>, <<>>}}
    \cup {[NoConditions EXCEPT !.amount_min = Some(0)],
          [NoConditions EXCEPT !.amount_max = Some(0)],
          [NoConditions EXCEPT !.amount_min = Some(0), !.amount_max = Some(50)],
          [NoConditions EXCEPT !.currency = Some(<<>>)],
          [NoConditions EXCEPT !.currency = Some(<<"E">>)],
          [NoConditions EXCEPT !.currency = Some(<<>>),
                               !.payee_contains = Some(<<"a">>)],
          [NoConditions EXCEPT !.payee_regex = Some(<<>>)],
          [NoConditions EXCEPT !.description_contains = Some(<<>>)]}

EvalCreateInputs ==
    {d \in CreateInputs(EvalConditions, {TRUE}, {100}) :
        d.user_id = ConcUser /\ d.tag_id = 1}

InitEval ==
    /\ tags = <<>>
    /\ rules = <<>>
    /\ assocs = [p \in Pairs |-> 0]
    /\ transactions \in {[TxnTable EXCEPT !["t1"] = x] : x \in EvalTransactions}
    /\ last = Response("none", FALSE, "ok", 0)
    /\ procs = [w \in Workers |-> Idle]

NextEval ==
    \/ CreateTag(ConcUser, "Shopping")
    \/ \E d \in EvalCreateInputs : CreateTagRuleUpTo(d, 1)
    \/ \E dry \in BOOLEAN : ApplySingle("t1", ConcUser, dry)

SpecEval == InitEval /\ [][NextEval]_vars

\* The per-field condition of the rule's field f on a transaction, for a
\* field that is not null.
FieldCheck(f, rule, transaction) ==
    CASE f = "payee_contains" ->
           str_in(str_lower(Val(rule[f])), str_lower(transaction.payee))
      [] f = "description_contains" ->
           str_in(str_lower(Val(rule[f])), str_lower(transaction.description))
      [] f = "payee_regex" -> re_search(Val(rule[f]), transaction.payee)
      [] f = "description_regex" ->
           re_search(Val(rule[f]), transaction.description)
      [] f = "amount_min" ->
           ~IsNone(transaction.amount)
           /\ Val(transaction.amount) >= Val(rule[f])
      [] f = "amount_max" ->
           ~IsNone(transaction.amount)
           /\ Val(transaction.amount) <= Val(rule[f])
      [] f = "currency" ->
           str_upper(transaction.currency) = str_upper(Val(rule[f]))

\* The non-null match fields of a rule.
SetFields(rule) == {f \in ConditionFields : ~IsNone(rule[f])}

\* C13 as claimed: for every stored rule and every transaction of the rule's
\* user, _evaluate_rule is true iff the check of every non-null field is
\* true; and a version of the transaction on which exactly one of those
\* checks is false is not matched.
AndSemantics ==
    \A i \in StoredRuleIds(rules) :
        LET r == Val(rules[i])
            t == transactions["t1"]
        IN /\ _evaluate_rule(r, t, r.user_id)
                <=> \A f \in SetFields(r) : FieldCheck(f, r, t)
           /\ \A x \in EvalTransactions :
                  (\E g \in SetFields(r) :
                       /\ ~FieldCheck(g, r, x)
                       /\ \A f \in SetFields(r) \ {g} : FieldCheck(f, r, x))
                      => ~_evaluate_rule(r, x, r.user_id)

PayeeContainsCaseInsensitive ==
    \A i \in StoredRuleIds(rules) : \A x \in EvalTransactions :
        LET r == Val(rules[i])
        IN SetFields(r) = {"payee_contains"} =>
               (_evaluate_rule(r, x, r.user_id)
                   <=> str_in(str_lower(Val(r.payee_contains)),
                              str_lower(x.payee)))

\* Witness of C15: a rule whose only condition is payee_contains = "aB" has
\* just been applied to a transaction with payee "Ab".
AppliedAcrossCase ==
    /\ last.op = "single" /\ ~last.dry_run /\ last.applied_count = 1
    /\ transactions["t1"].payee = <<"A", "b">>
    /\ \E i \in StoredRuleIds(rules) :
           /\ SetFields(Val(rules[i])) = {"payee_contains"}
           /\ Val(rules[i]).payee_contains = Some(<<"a", "B">>)

-----------------------------------------------------------------------------
(* Rule selection and order (SpecOrder): rules are created enabled and      *)
(* disabled, with different priorities, and applied to one transaction.     *)

Priorities == {1, 100}

\* Enabled rules of either priority, disabled ones of the default priority.
NextOrder ==
    \/ \E x \in TagInputs : CreateTag(x[1], x[2])
    \/ \E d \in CreateInputs({PayeeRule}, {TRUE}, Priorities)
                  \cup CreateInputs({PayeeRule}, {FALSE}, {100}) : CreateTagRule(d)
    \/ \E u \in Users, dry \in BOOLEAN : ApplySingle("t1", u, dry)

SpecOrder == Init /\ [][NextOrder]_vars

\* C16: list_applicable_for_user(u, enabled_only) returns each stored rule
\* with user_id = u (and enabled, when enabled_only) exactly once and no
\* other row, in ascending order of priority and, at equal priority, of
\* creation time.
ApplicableRulesSelectedAndOrdered ==
    \A u \in Users : \A eo \in BOOLEAN :
        LET l == list_applicable_for_user(rules, u, eo)
            want == {i \in StoredRuleIds(rules) :
                        /\ Val(rules[i]).user_id = u
                        /\ (eo => Val(rules[i]).enabled)}
        IN /\ Len(l) = Cardinality(want)
           /\ \A i \in want : \E k \in 1..Len(l) : l[k] = Val(rules[i])
           /\ \A k \in 1..Len(l) : \A m \in 1..Len(l) :
                  k < m =>
                      \/ l[k].priority < l[m].priority
                      \/ /\ l[k].priority = l[m].priority
                         /\ l[k].created_at <= l[m].created_at

\* Witness of C16: the rules of a user have just been listed for an apply,
\* and the one created later has the lower priority value.
LaterRuleListedFirst ==
    /\ last.op = "single" /\ last.error = "ok"
    /\ \E i \in StoredRuleIds(rules), j \in StoredRuleIds(rules) :
           /\ i < j
           /\ Val(rules[i]).user_id = Val(rules[j]).user_id
           /\ Val(rules[i]).enabled /\ Val(rules[j]).enabled
           /\ Val(rules[j]).priority < Val(rules[i]).priority

\* The rule table with other priorities: all equal, and the reverse of the
\* creation order.
FlatPriorities(rs) ==
    [i \in 1..Len(rs) |->
        IF IsNone(rs[i]) THEN None ELSE Some([Val(rs[i]) EXCEPT !.priority = 100])]
ReversedPriorities(rs) ==
    [i \in 1..Len(rs) |->
        IF IsNone(rs[i]) THEN None
        ELSE Some([Val(rs[i]) EXCEPT !.priority = 0 - Val(rs[i]).created_at])]

\* C17: from every state, a committing apply by user u, single on a
\* transaction or bulk without filters, leaves the association (t, tag_id)
\* stored for every candidate transaction t and every enabled rule of u that
\* matches t, whichever rules come before it; and the table it leaves is the
\* same when the rules have other priorities.
EveryMatchingRuleFires ==
    \A u \in Users :
        LET s == CommitSingle(assocs, "t1", u).assocs
            b == CommitBulk(assocs, u, NoFilter).assocs
            tl == candidate_transactions(transactions, u, BulkRequest(NoFilter, FALSE))
        IN /\ \A i \in MatchingRules(u, "t1") :
                  s[<<"t1", Val(rules[i]).tag_id>>] = 1
           /\ \A k \in 1..Len(tl) : \A i \in MatchingRules(u, tl[k]) :
                  b[<<tl[k], Val(rules[i]).tag_id>>] = 1
           /\ \A rs \in {FlatPriorities(rules), ReversedPriorities(rules)} :
                  /\ apply_rules_to_transaction(assocs, rs, transactions,
                                                "t1", u, FALSE).assocs = s
                  /\ apply_rules(assocs, rs, transactions, u,
                                 BulkRequest(NoFilter, FALSE)).assocs = b

\* Witness of C17: a committing single apply has just created the
\* associations of two rules that match the same transaction.
TwoRulesFired ==
    /\ last.op = "single" /\ ~last.dry_run /\ last.applied_count = 2
    /\ \E g \in TagIds, h \in TagIds :
           g # h /\ assocs[<<"t1", g>>] = 1 /\ assocs[<<"t1", h>>] = 1

-----------------------------------------------------------------------------
(* What the apply requests report (SpecReport): one user's rules, matching  *)
(* and not, and applies by both users over each kind of filter and on a     *)
(* transaction id that is not stored.                                       *)

\* Filters of the bulk requests: none, a transaction, a statement of each
\* user, and a date range.
ReportFilters ==
    BulkFilters
    \cup {[NoFilter EXCEPT !.statement_id = Some("s3")],
          [NoFilter EXCEPT !.date_from = Some(<<2, 12>>)],
          [NoFilter EXCEPT !.date_to = Some(<<1, 0>>)]}

\* Rules of one user: "a" is found in the payees of t1 and t2, "z" in no
\* payee.
NextReport ==
    \/ \E x \in ConcTagInputs : CreateTag(x[1], x[2])
    \/ \E d \in {x \in CreateInputs(
                           {[NoConditions EXCEPT !.payee_contains = Some(<<"a">>)],
                            [NoConditions EXCEPT !.payee_contains = Some(<<"z">>)]},
                           {TRUE}, {100}) : x.user_id = ConcUser} : CreateTagRule(d)
    \/ \E t \in SingleTxnIds, u \in Users, dry \in BOOLEAN : ApplySingle(t, u, dry)
    \/ \E u \in Users, f \in ReportFilters, dry \in BOOLEAN : ApplyBulk(u, f, dry)

SpecReport == Init /\ [][NextReport]_vars

\* Transaction t passes the filter f: it is the transaction, of the
\* statement, and within the dates the filter names.
PassesFilter(f, t) ==
    /\ (~IsNone(f.transaction_id) => t = Val(f.transaction_id))
    /\ (~IsNone(f.statement_id) => transactions[t].statement_id = Val(f.statement_id))
    /\ (~IsNone(f.date_from) => transactions[t].txn_date >= Val(f.date_from)[1])
    /\ (~IsNone(f.date_to) => transactions[t].txn_date <= Val(f.date_to)[1])

\* C18: a bulk apply by user u reports as evaluated_count the number of
\* transactions of u that pass the filters, the same number it reports when
\* no rule is stored; a single apply on a stored transaction reports
\* evaluated_count = 1.
EvaluatedCountIsCandidates ==
    \A u \in Users : \A dry \in BOOLEAN :
        /\ \A f \in ReportFilters :
               LET r == apply_rules(assocs, rules, transactions, u,
                                    BulkRequest(f, dry))
                   e == apply_rules(assocs, <<>>, transactions, u,
                                    BulkRequest(f, dry))
               IN /\ r.evaluated_count =
                         Cardinality({t \in TxnIds :
                                         TxnOwner(t) = u /\ PassesFilter(f, t)})
                  /\ r.evaluated_count = e.evaluated_count
        /\ \A t \in TxnIds :
               apply_rules_to_transaction(assocs, rules, transactions,
                                          t, u, dry).evaluated_count = 1

\* Witness of C18: a bulk apply has just tagged both transactions of a user
\* who also has a rule that matches neither.
BulkTaggedBesideIdleRule ==
    /\ last.op = "bulk" /\ ~last.dry_run /\ last.applied_count = 2
    /\ assocs[<<"t1", 1>>] = 1 /\ assocs[<<"t2", 1>>] = 1
    /\ \E i \in StoredRuleIds(rules), j \in StoredRuleIds(rules) :
           /\ MatchingRules(ConcUser, "t1") = {i}
           /\ j # i /\ Val(rules[j]).user_id = ConcUser

\* C19: a dry-run bulk apply returns a details list, empty or not, of
\* applied_count records, each naming a candidate transaction, a rule of
\* the user that matches it and that rule's tag, for a pair not yet
\* associated; a committing bulk apply returns no details.
DetailsOnlyInDryRun ==
    \A u \in Users : \A f \in ReportFilters :
        LET d == DryBulk(assocs, u, f)
            c == CommitBulk(assocs, u, f)
        IN /\ ~IsNone(d.details)
           /\ Len(Val(d.details)) = d.applied_count
           /\ \A k \in 1..Len(Val(d.details)) :
                  LET x == Val(d.details)[k]
                  IN /\ TxnOwner(x.transaction_id) = u
                     /\ PassesFilter(f, x.transaction_id)
                     /\ x.rule_id \in MatchingRules(u, x.transaction_id)
                     /\ x.tag_id = Val(rules[x.rule_id]).tag_id
                     /\ assocs[<<x.transaction_id, x.tag_id>>] = 0
           /\ IsNone(c.details)

\* Witness of C19: a dry-run bulk apply has just reported two would-apply
\* records.
DryBulkReportedTwo ==
    /\ last.op = "bulk" /\ last.dry_run /\ last.applied_count = 2
    /\ \E f \in ReportFilters :
           Len(Val(DryBulk(assocs, ConcUser, f).details)) = 2

\* C20: a single apply on a transaction id that is not stored fails with the
\* not-found ValueError in both modes, whatever rules are stored (none is
\* loaded before the failure), and leaves the association table as it was.
MissingTransactionNotFound ==
    \A u \in Users : \A dry \in BOOLEAN :
        \A t \in SingleTxnIds \ DOMAIN transactions :
            LET r == apply_rules_to_transaction(assocs, rules, transactions,
                                                t, u, dry)
                e == apply_rules_to_transaction(assocs, <<>>, transactions,
                                                t, u, dry)
            IN /\ r.error = "ValueError"
               /\ r.assocs = assocs
               /\ r.applied_count = 0 /\ r.applied_tag_ids = <<>>
               /\ r = e

\* Witness of C20: a single apply has just failed as not found while the
\* acting user has a rule that matches stored transactions.
SingleApplyNotFound ==
    /\ last.op = "single" /\ last.error = "ValueError"
    /\ MatchingRules(ConcUser, "t1") # {}

-----------------------------------------------------------------------------
(* The tag rule routes (SpecApi): get, patch and delete of a rule by id,    *)
(* asked by the two users and by a superuser.                               *)

\* The users that send requests: u1 and u2, and the superuser.
ApiUsers == Users \cup {"root"}
is_superuser(u) == u = "root"

\* The answer of a route: the HTTP status and the rule table it leaves.  An
\* exception that leaves the route function without a handler is answered
\* with status 500.
Answer(status, rs) == [status |-> status, rules |-> rs]

\* TagRuleService.delete_tag_rule.
delete_tag_rule(rs, rule_id) ==
    IF IsNone(rule_get_by_id(rs, rule_id))
    THEN [error |-> "TagRuleNotFoundError", rules |-> rs]
    ELSE [error |-> "ok", rules |-> [rs EXCEPT ![rule_id] = None]]

\* TagRuleUpdateIn.to_update: every field is passed to the TagRuleUpdate
\* constructor, the fields absent from the request body with their default
\* None.
to_update(d) ==
    LET v(f) == IF f \in d.set THEN d[f] ELSE None
    IN [set |-> UpdateFields, tag_id |-> v("tag_id"), enabled |-> v("enabled"),
        priority |-> v("priority"),
        payee_contains |-> v("payee_contains"),
        description_contains |-> v("description_contains"),
        payee_regex |-> v("payee_regex"),
        description_regex |-> v("description_regex"),
        amount_min |-> v("amount_min"), amount_max |-> v("amount_max"),
        currency |-> v("currency")]

\* The ownership check of the three routes.
may_access(current_user, rule) ==
    is_superuser(current_user) \/ rule.user_id = current_user

\* GET /tag-rules/{rule_id}.
route_get_tag_rule(rs, current_user, rule_id) ==
    IF IsNone(rule_get_by_id(rs, rule_id)) THEN Answer("404", rs)
    ELSE IF ~may_access(current_user, Val(rs[rule_id])) THEN Answer("403", rs)
    ELSE Answer("200", rs)

\* PATCH /tag-rules/{rule_id}: the body is validated as a TagRuleUpdateIn
\* before the route function runs.
route_update_tag_rule(tg, rs, current_user, rule_id, d, now) ==
    IF ~TagRuleUpdate(d) THEN Answer("422", rs)
    ELSE IF IsNone(rule_get_by_id(rs, rule_id)) THEN Answer("500", rs)
    ELSE IF ~may_access(current_user, Val(rs[rule_id])) THEN Answer("403", rs)
    ELSE LET r == update_tag_rule(tg, rs, rule_id, to_update(d), now)
         IN Answer(IF r.error = "ok" THEN "200" ELSE "500", r.rules)

\* DELETE /tag-rules/{rule_id}.
route_delete_tag_rule(rs, current_user, rule_id) ==
    IF IsNone(rule_get_by_id(rs, rule_id)) THEN Answer("500", rs)
    ELSE IF ~may_access(current_user, Val(rs[rule_id])) THEN Answer("403", rs)
    ELSE LET r == delete_tag_rule(rs, rule_id)
         IN Answer(IF r.error = "ok" THEN "204" ELSE "500", r.rules)

\* The record kept of a route's answer.
ApiResponse(op, status) == Response(op, FALSE, status, 0)

GetTagRuleRoute(current_user, rule_id) ==
    /\ procs = [w \in Workers |-> Idle]
    /\ LET r == route_get_tag_rule(rules, current_user, rule_id)
       IN last' = ApiResponse("get", r.status)
    /\ UNCHANGED <<tags, rules, assocs, transactions, procs>>

UpdateTagRuleRoute(current_user, rule_id, d) ==
    /\ procs = [w \in Workers |-> Idle]
    /\ LET r == route_update_tag_rule(tags, rules, current_user, rule_id, d,
                                       StoredTime(rules, rule_id))
       IN /\ rules' = r.rules
          /\ last' = ApiResponse("patch", r.status)
    /\ UNCHANGED <<tags, assocs, transactions, procs>>

DeleteTagRuleRoute(current_user, rule_id) ==
    /\ procs = [w \in Workers |-> Idle]
    /\ LET r == route_delete_tag_rule(rules, current_user, rule_id)
       IN /\ rules' = r.rules
          /\ last' = ApiResponse("delete", r.status)
    /\ UNCHANGED <<tags, assocs, transactions, procs>>

\* Request bodies of PATCH, with enabled and priority only, with the tag, with one match
\* field, and with every field.
ApiUpdateInputs ==
    {UpdateData({"enabled", "priority"}, None, Some(FALSE), Some(50), NoConditions),
     UpdateData({"tag_id", "enabled", "priority"}, Some(1), Some(FALSE), Some(50),
              NoConditions),
     UpdateData({"tag_id", "payee_contains"}, Some(1), None, None, PayeeRule),
     UpdateData(UpdateFields, Some(1), Some(TRUE), Some(50), PayeeRule)}

NextApi ==
    \/ \E x \in TagInputs : CreateTag(x[1], x[2])
    \/ \E d \in CreateInputs({PayeeRule}, {TRUE}, {100}) : CreateTagRule(d)
    \/ \E u \in ApiUsers, i \in RuleIds : GetTagRuleRoute(u, i)
    \/ \E u \in ApiUsers, i \in RuleIds, d \in ApiUpdateInputs :
           UpdateTagRuleRoute(u, i, d)
    \/ \E u \in ApiUsers, i \in RuleIds : DeleteTagRuleRoute(u, i)

SpecApi == Init /\ [][NextApi]_vars

\* C21: for a user who is not a superuser, a get, patch or delete of a rule
\* of another user is answered 403 and leaves the rule table as it was, and
\* a get, patch or delete of a rule id that is not stored is answered 404.
RuleAccessIsolated ==
    \A u \in Users : \A i \in RuleIds : \A d \in ApiUpdateInputs :
        LET g == route_get_tag_rule(rules, u, i)
            p == route_update_tag_rule(tags, rules, u, i, d, StoredTime(rules, i))
            x == route_delete_tag_rule(rules, u, i)
        IN /\ (i \in StoredRuleIds(rules) /\ Val(rules[i]).user_id # u) =>
                  /\ g.status = "403" /\ p.status = "403" /\ x.status = "403"
                  /\ p.rules = rules /\ x.rules = rules
           /\ i \notin StoredRuleIds(rules) =>
                  g.status = "404" /\ p.status = "404" /\ x.status = "404"

-----------------------------------------------------------------------------
(* Filters of the bulk apply (SpecFilter): every request names a            *)
(* transaction and a statement that is not the transaction's, with and      *)
(* without date bounds.                                                     *)

PrecedenceFilters ==
    {f \in {[transaction_id |-> Some(t), statement_id |-> Some(x),
             date_from |-> df, date_to |-> dt] :
                t \in TxnIds, x \in DOMAIN card_statements,
                df \in {None, Some(<<1, 12>>), Some(<<2, 12>>)},
                dt \in {None, Some(<<1, 0>>), Some(<<2, 0>>)}} :
        Val(f.statement_id) # TxnTable[Val(f.transaction_id)].statement_id}

NextFilter ==
    \/ \E x \in ConcTagInputs : CreateTag(x[1], x[2])
    \/ \E d \in ConcCreateInputs : CreateTagRule(d)
    \/ \E u \in Users, f \in PrecedenceFilters, dry \in BOOLEAN : ApplyBulk(u, f, dry)

SpecFilter == Init /\ [][NextFilter]_vars

\* C22: with transaction_id given, whatever statement_id is given with it,
\* the candidates of a bulk apply by user u are the transaction of that id
\* when it belongs to u and its date is on or after the day of date_from and
\* on or before the day of date_to, and no other transaction.
TransactionIdTakesPrecedence ==
    \A u \in Users : \A dry \in BOOLEAN :
        \A t \in TxnIds : \A s \in {None} \cup {Some(x) : x \in DOMAIN card_statements} :
            \A df \in {None, Some(<<1, 0>>), Some(<<1, 12>>), Some(<<2, 0>>), Some(<<2, 12>>)} :
                \A dt \in {None, Some(<<1, 0>>), Some(<<1, 12>>), Some(<<2, 0>>), Some(<<2, 12>>)} :
                    LET f == [transaction_id |-> Some(t), statement_id |-> s,
                              date_from |-> df, date_to |-> dt]
                        tl == candidate_transactions(transactions, u,
                                                     BulkRequest(f, dry))
                        want == /\ TxnOwner(t) = u
                                /\ (~IsNone(df) =>
                                        Val(df)[1] <= transactions[t].txn_date)
                                /\ (~IsNone(dt) =>
                                        transactions[t].txn_date <= Val(dt)[1])
                    IN tl = IF want THEN <<t>> ELSE <<>>

\* Witness of C22: a committing bulk apply that named a transaction and
\* another statement has just tagged the transaction.
TaggedDespiteOtherStatement ==
    /\ last.op = "bulk" /\ ~last.dry_run /\ last.applied_count = 1
    /\ \E p \in Pairs : assocs[p] = 1

-----------------------------------------------------------------------------
(* The pass of a bulk apply over transactions and rules (SpecPass): rules   *)
(* of one user with different priorities, dry runs, and committing runs     *)
(* followed one database operation at a time.                               *)

NextPass ==
    \/ \E x \in ConcTagInputs : CreateTag(x[1], x[2])
    \/ \E d \in {x \in CreateInputs(ApplyConditions, {TRUE}, Priorities) :
                       x.user_id = ConcUser} : CreateTagRule(d)
    \/ ApplyBulk(ConcUser, NoFilter, TRUE)
    \/ BeginBulk("w1", ConcUser, NoFilter)
    \/ OuterCheck("w1")
    \/ WriterCheck("w1")
    \/ Insert("w1")
    \/ Finish("w1")

SpecPass == Init /\ [][NextPass]_vars

\* The position of transaction t in the sequence tl.
IndexOf(tl, t) == CHOOSE k \in 1..Len(tl) : tl[k] = t

\* C23: the details of a dry-run bulk apply list the entries of one
\* transaction together, the transactions in the order of the pass, and the
\* entries of one transaction in the order of their rules: ascending
\* priority, then ascending creation time.  A committing bulk apply that is
\* about to insert the association of a pair has, for every pair before it
\* in that order whose rule matches, the association already stored.
DetailsInPassOrder ==
    /\ LET tl == candidate_transactions(transactions, ConcUser,
                                        BulkRequest(NoFilter, TRUE))
           d == Val(DryBulk(assocs, ConcUser, NoFilter).details)
       IN \A k \in 1..Len(d) : \A m \in 1..Len(d) :
              k < m =>
                  \/ IndexOf(tl, d[k].transaction_id)
                         < IndexOf(tl, d[m].transaction_id)
                  \/ /\ d[k].transaction_id = d[m].transaction_id
                     /\ LET x == Val(rules[d[k].rule_id])
                            y == Val(rules[d[m].rule_id])
                        IN \/ x.priority < y.priority
                           \/ /\ x.priority = y.priority
                              /\ x.created_at < y.created_at
    /\ LET p == procs["w1"]
       IN p.pc = "insert" =>
              \A i \in 1..p.i : \A j \in 1..Len(p.rl) :
                  (/\ i < p.i \/ j < p.j
                   /\ _evaluate_rule(p.rl[j], transactions[p.tl[i]], p.user_id))
                      => assocs[<<p.tl[i], p.rl[j].tag_id>>] >= 1

\* Witness of C23: a dry run has just reported four entries, two
\* transactions by two rules, the rule created later having the lower
\* priority value.
DryRunListedFourEntries ==
    /\ last.op = "bulk" /\ last.dry_run /\ last.applied_count = 4
    /\ \E i \in StoredRuleIds(rules), j \in StoredRuleIds(rules) :
           i < j /\ Val(rules[j]).priority < Val(rules[i]).priority

-----------------------------------------------------------------------------
(* Stored patterns that do not compile (SpecRegex): the tag_rules table is  *)
(* written without validation (TagRule is a table model), so the rule table *)
(* starts with rows of any content, among them patterns that re.compile     *)
(* refuses; the rules are then applied.                                     *)

\* Row contents: a rule that matches t1 and t2, rules whose payee_regex or
\* description_regex does not compile, alone and beside a condition that
\* holds, and a pattern that compiles.
RegexRows ==
    {d \in CreateInputs({PayeeRule,
                         BadPayeeRegex,
                         [PayeeRule EXCEPT !.payee_regex = Some(<<"[">>)],
                         [PayeeRule EXCEPT !.description_regex = Some(<<"[", "a">>)],
                         [NoConditions EXCEPT !.payee_regex = Some(<<"a", ".">>)]},
                        {TRUE}, Priorities) : d.user_id = ConcUser}

\* The rule tables of two rows.
RegexTables ==
    {<<Some(NewRule(<<>>, d1)), Some(NewRule(<<d1>>, d2))>> :
        d1 \in RegexRows, d2 \in RegexRows}

InitRegex ==
    /\ tags = <<Some([user_id |-> ConcUser, label |-> "Shopping"]),
                Some([user_id |-> ConcUser, label |-> "Food"])>>
    /\ rules \in RegexTables
    /\ assocs = [p \in Pairs |-> 0]
    /\ transactions = TxnTable
    /\ last = Response("none", FALSE, "ok", 0)
    /\ procs = [w \in Workers |-> Idle]

NextRegex ==
    \/ \E t \in TxnIds, dry \in BOOLEAN : ApplySingle(t, ConcUser, dry)
    \/ \E f \in BulkFilters, dry \in BOOLEAN : ApplyBulk(ConcUser, f, dry)

SpecRegex == InitRegex /\ [][NextRegex]_vars

\* The rule has a pattern that re.compile refuses.
BadRegex(r) ==
    \/ (Truthy(r.payee_regex) /\ ~re_compile_ok(Val(r.payee_regex)))
    \/ (Truthy(r.description_regex) /\ ~re_compile_ok(Val(r.description_regex)))

\* The rule table without the rules whose pattern does not compile.
WithoutBadRegex(rs) ==
    [i \in 1..Len(rs) |->
        IF ~IsNone(rs[i]) /\ BadRegex(Val(rs[i])) THEN None ELSE rs[i]]

\* C24: a stored rule whose payee_regex or description_regex does not
\* compile matches no transaction, and every apply, single or bulk, dry or
\* committing, completes and returns the counts, tags, details and table it
\* returns when those rules are not stored: the other rules are evaluated
\* and applied as without them.
BadRegexNeverMatches ==
    /\ \A i \in StoredRuleIds(rules) : \A t \in TxnIds : \A u \in Users :
           BadRegex(Val(rules[i])) =>
               ~_evaluate_rule(Val(rules[i]), transactions[t], u)
    /\ \A dry \in BOOLEAN :
           /\ \A t \in TxnIds :
                  LET r == apply_rules_to_transaction(assocs, rules, transactions,
                                                      t, ConcUser, dry)
                  IN /\ r.error = "ok"
                     /\ r = apply_rules_to_transaction(
                                assocs, WithoutBadRegex(rules), transactions,
                                t, ConcUser, dry)
           /\ \A f \in BulkFilters :
                  LET r == apply_rules(assocs, rules, transactions, ConcUser,
                                       BulkRequest(f, dry))
                  IN /\ r.error = "ok"
                     /\ r = apply_rules(assocs, WithoutBadRegex(rules),
                                        transactions, ConcUser,
                                        BulkRequest(f, dry))

\* Witness of C24: a committing bulk apply has just tagged two transactions
\* by the second rule of the pass, the first rule having a payee_regex that
\* does not compile beside a payee_contains that both transactions satisfy.
AppliedPastBadRegex ==
    /\ last.op = "bulk" /\ ~last.dry_run /\ last.applied_count = 2
    /\ BadRegex(Val(rules[2])) /\ ~BadRegex(Val(rules[1]))
    /\ Truthy(Val(rules[2]).payee_contains)
    /\ Val(rules[2]).priority < Val(rules[1]).priority
    /\ Val(rules[2]).tag_id # Val(rules[1]).tag_id
    /\ assocs[<<"t1", Val(rules[1]).tag_id>>] = 1
    /\ assocs[<<"t1", Val(rules[2]).tag_id>>] = 0

-----------------------------------------------------------------------------
(* Enabled and disabled rules (SpecEnabled): rules of one user are created  *)
(* enabled or disabled, switched by updates, and applied on both paths.     *)

NextEnabled ==
    \/ \E x \in ConcTagInputs : CreateTag(x[1], x[2])
    \/ \E d \in {x \in CreateInputs({PayeeRule}, BOOLEAN, {100}) :
                       x.user_id = ConcUser} : CreateTagRule(d)
    \/ \E i \in RuleIds, e \in BOOLEAN :
           UpdateTagRule(i, UpdateData({"enabled"}, None, Some(e), None, NoConditions))
    \/ \E t \in TxnIds, dry \in BOOLEAN : ApplySingle(t, ConcUser, dry)
    \/ \E f \in BulkFilters, dry \in BOOLEAN : ApplyBulk(ConcUser, f, dry)

SpecEnabled == Init /\ [][NextEnabled]_vars

\* The rule table without the disabled rules.
WithoutDisabled(rs) ==
    [i \in 1..Len(rs) |->
        IF ~IsNone(rs[i]) /\ ~Val(rs[i]).enabled THEN None ELSE rs[i]]

\* C25: an apply, single or bulk, dry or committing, returns the counts,
\* tags, details and association table it returns when the disabled rules
\* are not stored; no details entry names a disabled rule, and a pair
\* (t, tag) that only disabled rules match gets no association and is not
\* among the applied tags.
DisabledRulesNeverFire ==
    \A u \in Users : \A dry \in BOOLEAN :
        LET off == {i \in StoredRuleIds(rules) : ~Val(rules[i]).enabled}
            onlyOff(t, g) ==
                /\ \E i \in off : Val(rules[i]).tag_id = g
                /\ \A i \in MatchingRules(u, t) : Val(rules[i]).tag_id # g
        IN /\ \A t \in TxnIds :
                  LET r == apply_rules_to_transaction(assocs, rules, transactions,
                                                      t, u, dry)
                  IN /\ r = apply_rules_to_transaction(
                                assocs, WithoutDisabled(rules), transactions,
                                t, u, dry)
                     /\ \A g \in TagIds :
                            onlyOff(t, g) =>
                                /\ r.assocs[<<t, g>>] = assocs[<<t, g>>]
                                /\ \A k \in 1..Len(r.applied_tag_ids) :
                                       r.applied_tag_ids[k] # g
           /\ \A f \in BulkFilters :
                  LET r == apply_rules(assocs, rules, transactions, u,
                                       BulkRequest(f, dry))
                  IN /\ r = apply_rules(assocs, WithoutDisabled(rules),
                                        transactions, u, BulkRequest(f, dry))
                     /\ \A t \in TxnIds : \A g \in TagIds :
                            onlyOff(t, g) =>
                                r.assocs[<<t, g>>] = assocs[<<t, g>>]
                     /\ dry =>
                            \A k \in 1..Len(Val(r.details)) :
                                Val(r.details)[k].rule_id \notin off

\* Witness of C25: a committing bulk apply has just tagged two transactions
\* by an enabled rule while a disabled rule of another tag has the same
\* condition; the other tag is on neither.
AppliedBesideDisabledRule ==
    /\ last.op = "bulk" /\ ~last.dry_run /\ last.applied_count = 2
    /\ \E i \in StoredRuleIds(rules), j \in StoredRuleIds(rules) :
           /\ Val(rules[i]).enabled /\ ~Val(rules[j]).enabled
           /\ Val(rules[i]).tag_id # Val(rules[j]).tag_id
           /\ assocs[<<"t1", Val(rules[i]).tag_id>>] = 1
           /\ assocs[<<"t1", Val(rules[j]).tag_id>>] = 0
           /\ assocs[<<"t2", Val(rules[j]).tag_id>>] = 0

-----------------------------------------------------------------------------
(* The conditions a match rests on (SpecEval).                              *)

\* C26 as claimed: a stored rule, accepted by the creation validation,
\* matches a transaction of its user only when the check of every non-null
\* field (an empty string is non-null) holds, so at least one check was
\* made and holds; a rule whose only non-null field is currency matches
\* exactly the transactions whose upper-cased currency equals its own.
NeverVacuouslyTrue ==
    \A i \in StoredRuleIds(rules) : \A x \in EvalTransactions :
        LET r == Val(rules[i])
        IN /\ _evaluate_rule(r, x, r.user_id) =>
                  /\ SetFields(r) # {}
                  /\ \E f \in SetFields(r) : FieldCheck(f, r, x)
           /\ SetFields(r) = {"currency"} =>
                  (_evaluate_rule(r, x, r.user_id)
                      <=> str_upper(x.currency) = str_upper(Val(r.currency)))

-----------------------------------------------------------------------------
(* Timestamps of the rules (SpecClock): rules are created and updated, the  *)
(* updates accepted and refused, at clock readings that never go back.      *)

\* The last reading of the clock the model follows.
MaxTime == 3

\* The latest time stored in the rule table.
RECURSIVE MaxStamp(_)
MaxStamp(rs) ==
    IF rs = <<>> THEN 0
    ELSE LET m == MaxStamp(SubSeq(rs, 1, Len(rs) - 1))
             r == rs[Len(rs)]
             t == IF IsNone(r) THEN 0
                  ELSE IF Val(r).updated_at > Val(r).created_at
                  THEN Val(r).updated_at ELSE Val(r).created_at
         IN IF t > m THEN t ELSE m

\* The readings datetime.utcnow() can return: not before any stored time.
ClockTimes(rs) == {t \in 1..MaxTime : t >= MaxStamp(rs)}

\* Updates of the tag, and of payee_regex to a pattern that does not
\* compile.
ClockUpdateInputs ==
    UpdateTagInputs
    \cup UpdateConditionInputs({"payee_regex"}, {BadPayeeRegex})

NextClock ==
    \/ \E x \in TagInputs : CreateTag(x[1], x[2])
    \/ \E d \in ConcCreateInputs : CreateTagRule(d)
    \/ \E i \in RuleIds, d \in ClockUpdateInputs, now \in ClockTimes(rules) :
           UpdateTagRuleAt(i, d, now)

SpecClock == Init /\ [][NextClock]_vars

\* C27: an update_tag_rule that succeeds at clock reading `now` leaves the
\* rule with updated_at = now, not earlier than its updated_at before and
\* than its created_at, with the created_at, id and user_id it had, and
\* leaves the other rules as they were; one that is refused (rule or tag
\* not found, tag of another user, data refused) leaves the rule table, and
\* with it every updated_at, unchanged.
UpdatedAtRefreshed ==
    \A i \in RuleIds : \A d \in ClockUpdateInputs : \A now \in ClockTimes(rules) :
        LET r == update_tag_rule(tags, rules, i, d, now)
        IN IF r.error = "ok"
           THEN LET old == Val(rules[i])
                    new == Val(r.rules[i])
                IN /\ new.updated_at = now
                   /\ new.updated_at >= old.updated_at
                   /\ new.updated_at >= new.created_at
                   /\ new.created_at = old.created_at
                   /\ new.id = old.id /\ new.user_id = old.user_id
                   /\ \A j \in 1..Len(rules) : j # i => r.rules[j] = rules[j]
           ELSE r.rules = rules

\* Witness of C27: an update has just succeeded and a rule carries an
\* updated_at later than its created_at.
RuleUpdatedLater ==
    /\ last.op = "update_tag_rule" /\ last.error = "ok"
    /\ \E i \in StoredRuleIds(rules) :
           Val(rules[i]).updated_at > Val(rules[i]).created_at

-----------------------------------------------------------------------------
(* The frame of a PATCH (SpecApi).                                          *)

\* C28 as claimed: a PATCH by the owner of a stored rule, whose body names
\* some fields (and, when it names the tag, a tag of the owner), is answered
\* 200 and leaves the rule with the body's value in each field named and
\* with its previous value in every field not named.
PartialUpdateFrame ==
    \A i \in StoredRuleIds(rules) : \A d \in ApiUpdateInputs :
        LET old == Val(rules[i])
            tag == IF "tag_id" \in d.set THEN tag_get_by_id(tags, Val(d.tag_id))
                   ELSE None
            p == route_update_tag_rule(tags, rules, old.user_id, i, d,
                                       StoredTime(rules, i))
        IN ("tag_id" \in d.set =>
                (~IsNone(tag) /\ Val(tag).user_id = old.user_id))
           => /\ p.status = "200"
              /\ \A f \in UpdateFields :
                     Val(p.rules[i])[f] =
                         IF f \notin d.set THEN old[f]
                         ELSE IF f \in RequiredFields THEN Val(d[f]) ELSE d[f]

-----------------------------------------------------------------------------
(* Rule and tag maintenance interleaved (SpecInterleave): two workers serve *)
(* create_tag_rule, update_tag_rule and delete_tag, each commit of a        *)
(* request a step of its own; `enforced`: does the database enforce the     *)
(* foreign key of tag_rules.tag_id.                                         *)

\* create_tag_rule up to the insert: the request model is validated and the
\* tag is read and its owner compared.
CreateRuleCheck(w, d) ==
    /\ procs[w] = Idle
    /\ LET e == IF ~TagRuleCreate(d) THEN "ValidationError"
                ELSE IF IsNone(tag_get_by_id(tags, d.tag_id)) THEN "TagNotFoundError"
                ELSE IF Val(tag_get_by_id(tags, d.tag_id)).user_id # d.user_id
                THEN "TagRuleOwnershipError"
                ELSE "ok"
       IN IF e = "ok"
          THEN /\ procs' = [procs EXCEPT ![w] = [pc |-> "insert_rule", d |-> d]]
               /\ UNCHANGED last
          ELSE /\ last' = Response("create_tag_rule", FALSE, e, 0)
               /\ UNCHANGED procs
    /\ UNCHANGED <<tags, rules, assocs, transactions>>

\* create_tag_rule, TagRuleRepository.create: the insert and its commit.
CreateRuleInsert(w, enforced) ==
    /\ procs[w].pc = "insert_rule"
    /\ LET d == procs[w].d
       IN IF enforced /\ IsNone(tag_get_by_id(tags, d.tag_id))
          THEN /\ last' = Response("create_tag_rule", FALSE, "IntegrityError", 0)
               /\ UNCHANGED rules
          ELSE /\ Len(rules) < MaxRules
               /\ rules' = Append(rules, Some(NewRule(rules, d)))
               /\ last' = Response("create_tag_rule", FALSE, "ok", 0)
    /\ procs' = [procs EXCEPT ![w] = Idle]
    /\ UNCHANGED <<tags, assocs, transactions>>

\* update_tag_rule up to the repository update: the rule is read, and the
\* new tag and its owner.
UpdateRuleCheck(w, rule_id, d) ==
    /\ procs[w] = Idle
    /\ LET e == IF IsNone(rule_get_by_id(rules, rule_id)) THEN "TagRuleNotFoundError"
                ELSE IF IsNone(tag_get_by_id(tags, Val(d.tag_id)))
                THEN "TagNotFoundError"
                ELSE IF Val(tag_get_by_id(tags, Val(d.tag_id))).user_id
                            # Val(rules[rule_id]).user_id
                THEN "TagRuleOwnershipError"
                ELSE "ok"
       IN IF e = "ok"
          THEN /\ procs' = [procs EXCEPT ![w] =
                               [pc |-> "write_rule", rule_id |-> rule_id, d |-> d]]
               /\ UNCHANGED last
          ELSE /\ last' = Response("update_tag_rule", FALSE, e, 0)
               /\ UNCHANGED procs
    /\ UNCHANGED <<tags, rules, assocs, transactions>>

\* update_tag_rule, TagRuleRepository.update and the refresh of updated_at.
UpdateRuleWrite(w, enforced) ==
    /\ procs[w].pc = "write_rule"
    /\ LET p == procs[w]
           r == IF IsNone(rule_get_by_id(rules, p.rule_id))
                THEN [error |-> "TagRuleNotFoundError", rules |-> rules]
                ELSE IF enforced /\ IsNone(tag_get_by_id(tags, Val(p.d.tag_id)))
                THEN [error |-> "IntegrityError", rules |-> rules]
                ELSE refresh_updated_at(repository_update(rules, p.rule_id, p.d),
                                        p.rule_id, StoredTime(rules, p.rule_id))
       IN /\ rules' = r.rules
          /\ last' = Response("update_tag_rule", FALSE, r.error, 0)
    /\ procs' = [procs EXCEPT ![w] = Idle]
    /\ UNCHANGED <<tags, assocs, transactions>>

\* delete_tag, the listing of the rules of the tag.
DeleteTagList(w, tag_id) ==
    /\ procs[w] = Idle
    /\ procs' = [procs EXCEPT ![w] =
                    [pc |-> "cascade", tag_id |-> tag_id,
                     ids |-> repository_list(rules, 0, ListLimit, tag_id)]]
    /\ UNCHANGED <<tags, rules, assocs, transactions, last>>

\* delete_tag, TagRuleRepository.delete of the next listed rule and its
\* commit; a rule that is no longer stored ends the request.
DeleteTagRule(w) ==
    /\ procs[w].pc = "cascade" /\ procs[w].ids # <<>>
    /\ LET r == delete_tag_rule(rules, Head(procs[w].ids))
       IN /\ rules' = r.rules
          /\ IF r.error = "ok"
             THEN /\ procs' = [procs EXCEPT ![w].ids = Tail(@)]
                  /\ UNCHANGED last
             ELSE /\ procs' = [procs EXCEPT ![w] = Idle]
                  /\ last' = Response("delete_tag", FALSE, r.error, 0)
    /\ UNCHANGED <<tags, assocs, transactions>>

\* delete_tag, TagRepository.delete of the tag after the last listed rule.
DeleteTagRemove(w, enforced) ==
    /\ procs[w].pc = "cascade" /\ procs[w].ids = <<>>
    /\ LET t == tag_delete(tags, rules, procs[w].tag_id, enforced)
       IN /\ tags' = t.tags
          /\ last' = Response("delete_tag", FALSE, t.error, 0)
    /\ procs' = [procs EXCEPT ![w] = Idle]
    /\ UNCHANGED <<rules, assocs, transactions>>

NextInterleave ==
    \/ \E x \in TagInputs : CreateTag(x[1], x[2])
    \/ \E w \in Workers, d \in CreateInputs({PayeeRule}, {TRUE}, {100}) :
           CreateRuleCheck(w, d)
    \/ \E w \in Workers, enforced \in BOOLEAN : CreateRuleInsert(w, enforced)
    \/ \E w \in Workers, i \in RuleIds, d \in UpdateTagInputs : UpdateRuleCheck(w, i, d)
    \/ \E w \in Workers, enforced \in BOOLEAN : UpdateRuleWrite(w, enforced)
    \/ \E w \in Workers, g \in TagIds : DeleteTagList(w, g)
    \/ \E w \in Workers : DeleteTagRule(w)
    \/ \E w \in Workers, enforced \in BOOLEAN : DeleteTagRemove(w, enforced)

SpecInterleave == Init /\ [][NextInterleave]_vars

\* C29 as claimed: in every reachable state every stored rule references a
\* stored tag whose user_id is the rule's user_id.
RuleTagIntegrity ==
    \A i \in StoredRuleIds(rules) :
        LET tag == tag_get_by_id(tags, Val(rules[i]).tag_id)
        IN ~IsNone(tag) /\ Val(tag).user_id = Val(rules[i]).user_id

-----------------------------------------------------------------------------
(* Count accuracy of a committing bulk apply among interleaved requests.    *)

\* C30 as claimed: under interleaved apply requests of one user, every step
\* of a committing bulk request raises its applied_count by exactly the
\* number of associations that step inserted, so the count returned equals
\* the number of associations the call itself inserted.
CountsOwnInserts ==
    [][\A w \in Workers :
          (/\ procs[w].pc \notin {"idle", "done", "failed"}
           /\ procs[w].kind = "bulk"
           /\ procs'[w] # procs[w])
          => procs'[w].applied_count - procs[w].applied_count
                 = Cardinality({p \in Pairs : assocs'[p] > assocs[p]})]_vars

====
